---- MODULE Spec2Model ----
(***************************************************************************)
(* Model of toggl-flex-time: the local cache (load, fetch range, merge,    *)
(* save), the flex calculator, the Danish holiday calendar and the run of  *)
(* main that ties them together.                                           *)
(*                                                                         *)
(* Representation                                                          *)
(*  - A JavaScript string is a sequence of one-character strings           *)
(*    ("2025-01-06" is <<"2","0","2","5","-","0","1","-","0","6">>), so    *)
(*    that comparison, startsWith, slice and padStart are computed         *)
(*    character by character as the engine does.                           *)
(*  - A JavaScript Date is a record [day, ms] of its local time: the       *)
(*    number of local calendar days since 1970-01-01 and the milliseconds  *)
(*    since local midnight, under the time zone of the process.  A zone is *)
(*    a record [offset, day, ms, shift]: the minutes east of UTC, and the  *)
(*    one change of offset in the span of a run (at the local time         *)
(*    [day, ms] the clocks move by shift minutes; shift = 0: no change).   *)
(*    The operations that build or move a Date take the zone and resolve   *)
(*    the wall-clock time as the engine does.                              *)
(*  - A JavaScript number that holds hours is an IEEE 754 double           *)
(*    [s, m, e] of value s * m * 2^e, every operation rounded to nearest,  *)
(*    ties to even; counts and seconds are integers.                       *)
(***************************************************************************)
EXTENDS Integers, Sequences, FiniteSets, TLC

(***************************************************************************)
(* Strings                                                                 *)
(***************************************************************************)

\* UTF-16 code unit of the characters that occur in date strings and specs.
CharCode(c) ==
  CASE c = "*" -> 42 [] c = "-" -> 45
    [] c = "0" -> 48 [] c = "1" -> 49 [] c = "2" -> 50 [] c = "3" -> 51
    [] c = "4" -> 52 [] c = "5" -> 53 [] c = "6" -> 54 [] c = "7" -> 55
    [] c = "8" -> 56 [] c = "9" -> 57

DigitChar(n) ==
  CASE n = 0 -> "0" [] n = 1 -> "1" [] n = 2 -> "2" [] n = 3 -> "3"
    [] n = 4 -> "4" [] n = 5 -> "5" [] n = 6 -> "6" [] n = 7 -> "7"
    [] n = 8 -> "8" [] n = 9 -> "9"

RECURSIVE StrCompareFrom(_, _, _)
\* Code-unit comparison of two strings from index i: -1, 0 or 1.
StrCompareFrom(a, b, i) ==
  IF i > Len(a) /\ i > Len(b) THEN 0
  ELSE IF i > Len(a) THEN -1
  ELSE IF i > Len(b) THEN 1
  ELSE IF CharCode(a[i]) < CharCode(b[i]) THEN -1
  ELSE IF CharCode(a[i]) > CharCode(b[i]) THEN 1
  ELSE StrCompareFrom(a, b, i + 1)

\* a < b on strings
StrLess(a, b) == StrCompareFrom(a, b, 1) < 0

\* a <= b on strings
StrLeq(a, b) == StrCompareFrom(a, b, 1) <= 0

\* a.localeCompare(b); on strings of digits and dashes of one layout the
\* collation order is the code-unit order.
localeCompare(a, b) == StrCompareFrom(a, b, 1)

\* s.startsWith(prefix)
startsWith(s, prefix) ==
  /\ Len(prefix) <= Len(s)
  /\ \A i \in 1..Len(prefix) : s[i] = prefix[i]

\* s.slice(n): the string without its first n characters
slice(s, n) == IF n >= Len(s) THEN <<>> ELSE SubSeq(s, n + 1, Len(s))

RECURSIVE NumToStr(_)
\* String(n) for a non-negative integer
NumToStr(n) ==
  IF n < 10 THEN <<DigitChar(n)>>
  ELSE Append(NumToStr(n \div 10), DigitChar(n % 10))

RECURSIVE padStart(_, _, _)
\* s.padStart(width, c)
padStart(s, width, c) ==
  IF Len(s) >= width THEN s ELSE padStart(<<c>> \o s, width, c)

(***************************************************************************)
(* Date objects                                                            *)
(***************************************************************************)

MsPerDay == 86400000

\* new Date(year, monthIndex, day): the day number of a civil date
\* (proleptic Gregorian calendar, days since 1970-01-01).
DaysFromCivil(y, m, d) ==
  LET yy  == IF m <= 2 THEN y - 1 ELSE y
      era == yy \div 400
      yoe == yy - era * 400
      mp  == IF m > 2 THEN m - 3 ELSE m + 9
      doy == (153 * mp + 2) \div 5 + d - 1
      doe == yoe * 365 + yoe \div 4 - yoe \div 100 + doy
  IN  era * 146097 + doe - 719468

\* The civil date [y, m, d] of a day number (m is 1..12): the era of 400
\* years, the day and the year of the era, the day of the year counted
\* from March 1, and the month counted from March.
CivilFromDays(z) ==
  LET OfMonth(era, yoe, doy, mp, m) ==
        [y |-> yoe + era * 400 + (IF m <= 2 THEN 1 ELSE 0),
         m |-> m,
         d |-> doy - (153 * mp + 2) \div 5 + 1]
      OfMp(era, yoe, doy, mp) ==
        OfMonth(era, yoe, doy, mp, IF mp < 10 THEN mp + 3 ELSE mp - 9)
      OfDoy(era, yoe, doy) == OfMp(era, yoe, doy, (5 * doy + 2) \div 153)
      OfYoe(era, doe, yoe) ==
        OfDoy(era, yoe, doe - (365 * yoe + yoe \div 4 - yoe \div 100))
      OfDoe(era, doe) ==
        OfYoe(era, doe,
              (doe - doe \div 1460 + doe \div 36524 - doe \div 146096)
                \div 365)
      OfEra(zz, era) == OfDoe(era, zz - era * 146097)
      OfZz(zz) == OfEra(zz, zz \div 146097)
  IN  OfZz(z + 719468)

\* a < b, a <= b on Date objects.  The engine compares the time values; no
\* Date of the model lies in the second pass of an hour that a change of
\* offset repeats, and on all others the order of the local times is the
\* order of the time values.
DateLess(a, b) == a.day < b.day \/ (a.day = b.day /\ a.ms < b.ms)
DateLeq(a, b) == a.day < b.day \/ (a.day = b.day /\ a.ms <= b.ms)

\* The local time the given minutes after (before, when negative) local.
PlusMinutes(local, minutes) ==
  [day |-> local.day + (local.ms + minutes * 60000) \div MsPerDay,
   ms |-> (local.ms + minutes * 60000) % MsPerDay]

\* A zone: offset minutes east of UTC until the clocks read [day, ms], when
\* they move by shift minutes (forward when positive; 0: they never move).
Zone(offset, day, ms, shift) ==
  [offset |-> offset, day |-> day, ms |-> ms, shift |-> shift]

UTC == Zone(0, 0, 0, 0)

\* The local time of the change, on the clock before the change.
ChangeAt(zone) == [day |-> zone.day, ms |-> zone.ms]

\* The wall-clock time a Date takes for the local fields it is given: a
\* time that the clocks skip is read with the offset before the change,
\* which shows as the time shift minutes later.
Resolve(zone, local) ==
  IF /\ zone.shift > 0
     /\ DateLeq(ChangeAt(zone), local)
     /\ DateLess(local, PlusMinutes(ChangeAt(zone), zone.shift))
  THEN PlusMinutes(local, zone.shift)
  ELSE local

\* The offset (minutes east of UTC) in force at a local time; a time the
\* clocks show twice is the first of the two.
OffsetAt(zone, local) ==
  IF zone.shift # 0 /\ DateLeq(ChangeAt(zone), local)
  THEN zone.offset + zone.shift
  ELSE zone.offset

\* The local time of an instant given as the UTC time [day, ms].
ToLocal(zone, instant) ==
  IF /\ zone.shift # 0
     /\ DateLeq(PlusMinutes(ChangeAt(zone), -zone.offset), instant)
  THEN PlusMinutes(instant, zone.offset + zone.shift)
  ELSE PlusMinutes(instant, zone.offset)

\* a.getTime() - b.getTime() as [days, ms], 0 <= ms < MsPerDay.
TimeBetween(zone, a, b) ==
  LET Minutes(offsets) ==
        PlusMinutes([day |-> a.day - b.day, ms |-> a.ms], -offsets)
  IN  [days |-> Minutes(OffsetAt(zone, a) - OffsetAt(zone, b)).day
                  + (Minutes(OffsetAt(zone, a) - OffsetAt(zone, b)).ms - b.ms)
                      \div MsPerDay,
       ms |-> (Minutes(OffsetAt(zone, a) - OffsetAt(zone, b)).ms - b.ms)
                % MsPerDay]

\* new Date(year, monthIndex, day)
NewDate(zone, year, monthIndex, day) ==
  Resolve(zone, [day |-> DaysFromCivil(year, monthIndex + 1, day), ms |-> 0])

getFullYear(date) == CivilFromDays(date.day).y
\* 0 = January
getMonth(date) == CivilFromDays(date.day).m - 1
getDate(date) == CivilFromDays(date.day).d
\* 0 = Sunday ... 6 = Saturday; 1970-01-01 was a Thursday
getDay(date) == (date.day + 4) % 7

\* d.setDate(d.getDate() + n): same wall-clock time, n days later
addDaysTo(zone, date, n) ==
  Resolve(zone, [date EXCEPT !.day = date.day + n])

\* d.setHours(h, m, s, ms)
setHours(zone, date, h, m, s, ms) ==
  Resolve(zone, [date EXCEPT !.ms = ((h * 60 + m) * 60 + s) * 1000 + ms])

\* formatDate(date): "YYYY-MM-DD" in local time
formatDate(date) ==
  NumToStr(getFullYear(date))
    \o <<"-">> \o padStart(NumToStr(getMonth(date) + 1), 2, "0")
    \o <<"-">> \o padStart(NumToStr(getDate(date)), 2, "0")

\* The date string of a day number.
DayStr(n) == formatDate([day |-> n, ms |-> 0])

(***************************************************************************)
(* cache.ts                                                                *)
(***************************************************************************)

FETCH_WINDOW_DAYS == 60

formatDateForCache(date) == formatDate(date)

RECURSIVE MapIndexOf(_, _, _)
\* Position of key in a Map held as a sequence of [key, value] in insertion
\* order; 0 when absent.
MapIndexOf(map, key, i) ==
  IF i > Len(map) THEN 0
  ELSE IF map[i].key = key THEN i
  ELSE MapIndexOf(map, key, i + 1)

\* byDate.set(date, (byDate.get(date) || 0) + durationSeconds)
MapAdd(map, key, amount) ==
  LET i == MapIndexOf(map, key, 1)
      current == IF i = 0 \/ map[i].value = 0 THEN 0 ELSE map[i].value
  IN  IF i = 0 THEN Append(map, [key |-> key, value |-> current + amount])
      ELSE [map EXCEPT ![i].value = current + amount]

RECURSIVE GroupByDate(_, _, _)
\* The loop of mergeEntries over all, starting at index i with map byDate.
GroupByDate(all, i, byDate) ==
  IF i > Len(all) THEN byDate
  ELSE GroupByDate(all, i + 1,
                   MapAdd(byDate, all[i].date, all[i].durationSeconds))

RECURSIVE InsertByDate(_, _)
\* Stable insertion of e into a list sorted with a.date.localeCompare(b.date).
InsertByDate(sorted, e) ==
  IF sorted = <<>> THEN <<e>>
  ELSE IF localeCompare(e.date, sorted[Len(sorted)].date) >= 0
       THEN Append(sorted, e)
       ELSE Append(InsertByDate(SubSeq(sorted, 1, Len(sorted) - 1), e),
                   sorted[Len(sorted)])

RECURSIVE SortByDate(_, _, _)
\* .sort((a, b) => a.date.localeCompare(b.date)), a stable sort
SortByDate(list, i, sorted) ==
  IF i > Len(list) THEN sorted
  ELSE SortByDate(list, i + 1, InsertByDate(sorted, list[i]))

\* Mutant of KeepOld: the entry dated on the window start is kept too.
KeepOldInclusive(e, freshStartDate) == StrLeq(e.date, freshStartDate)

\* The filter of mergeEntries: cached entries older than the fetch window.
KeepOld(e, freshStartDate) == StrLess(e.date, freshStartDate)

\* Mutant of MapToEntries: the grouped entries are returned unsorted.
MapToEntriesUnsorted(byDate) ==
  [i \in 1..Len(byDate) |->
     [date |-> byDate[i].key, durationSeconds |-> byDate[i].value]]

\* Array.from(byDate.entries()).map(...).sort(...)
MapToEntries(byDate) ==
  SortByDate([i \in 1..Len(byDate) |->
                [date |-> byDate[i].key, durationSeconds |-> byDate[i].value]],
             1, <<>>)

mergeEntries(cachedEntries, freshEntries, freshStartDate) ==
  LET oldCached == SelectSeq(cachedEntries,
                             LAMBDA e : KeepOld(e, freshStartDate))
      all == oldCached \o freshEntries
      byDate == GroupByDate(all, 1, <<>>)
  IN  MapToEntries(byDate)

\* The CacheData of an empty cache; new Date(0) is the epoch.
EmptyCache ==
  [version |-> 1, lastUpdated |-> [day |-> 0, ms |-> 0], entries |-> <<>>]

\* The cache file as the file system and JSON.parse present it: whether it
\* exists, whether its content parses to an object, and the fields of that
\* object (version, lastUpdated, whether entries is an array, entries).
NoFile ==
  [exists |-> FALSE, parses |-> FALSE, version |-> 0,
   entriesIsArray |-> FALSE, lastUpdated |-> [day |-> 0, ms |-> 0],
   entries |-> <<>>]

\* Mutant of loadCache: the version tag of the file is not validated.
loadCacheAnyVersion(file) ==
  IF ~file.exists THEN EmptyCache
  ELSE IF ~file.parses THEN EmptyCache
  ELSE IF ~file.entriesIsArray THEN EmptyCache
  ELSE [version |-> file.version, lastUpdated |-> file.lastUpdated,
        entries |-> file.entries]

loadCache(file) ==
  IF ~file.exists THEN EmptyCache
  ELSE IF ~file.parses THEN EmptyCache
  ELSE IF file.version # 1 \/ ~file.entriesIsArray THEN EmptyCache
  ELSE [version |-> file.version, lastUpdated |-> file.lastUpdated,
        entries |-> file.entries]

\* writeFileSync(cachePath, JSON.stringify(cache)): the file after the write.
\* Strings and integers survive JSON unchanged.
saveCache(cache) ==
  [exists |-> TRUE, parses |-> TRUE, version |-> cache.version,
   entriesIsArray |-> TRUE, lastUpdated |-> cache.lastUpdated,
   entries |-> cache.entries]

\* Mutant of calculateFetchRange: the window is not clamped to the year start.
calculateFetchRangeUnclamped(zone, cache, yearStart, endDate) ==
  LET hasCache == Len(cache.entries) > 0
      fetchStart ==
        setHours(zone, addDaysTo(zone, endDate, -FETCH_WINDOW_DAYS),
                 0, 0, 0, 0)
  IN  IF ~hasCache
      THEN [startDate |-> yearStart, endDate |-> endDate,
            needsFullFetch |-> TRUE]
      ELSE [startDate |-> fetchStart, endDate |-> endDate,
            needsFullFetch |-> FALSE]

calculateFetchRange(zone, cache, yearStart, endDate) ==
  LET hasCache == Len(cache.entries) > 0
      fetchStart ==
        setHours(zone, addDaysTo(zone, endDate, -FETCH_WINDOW_DAYS),
                 0, 0, 0, 0)
      effectiveStart ==
        IF DateLess(fetchStart, yearStart) THEN yearStart ELSE fetchStart
  IN  IF ~hasCache
      THEN [startDate |-> yearStart, endDate |-> endDate,
            needsFullFetch |-> TRUE]
      ELSE [startDate |-> effectiveStart, endDate |-> endDate,
            needsFullFetch |-> FALSE]

(***************************************************************************)
(* Numbers: IEEE 754 binary64                                              *)
(*                                                                         *)
(* A natural number of any size is a sequence of limbs in base 2^15, least *)
(* significant first, without leading zero limbs (0 is <<>>).  A double is *)
(* [s, m, e]: sign s in {-1, 0, 1}, mantissa m a natural number with       *)
(* exactly 53 bits and exponent e, of value s * m * 2^e; zero is           *)
(* [0, <<>>, 0].  Every operation computes the exact result and rounds it  *)
(* to the nearest double, ties to the even mantissa.                       *)
(***************************************************************************)

\* The powers p of two with the next one appended.
WithNextPower(p) == Append(p, 2 * p[Len(p)])

RECURSIVE PowersOf2(_)
\* <<2^0, 2^1, ..., 2^n>>
PowersOf2(n) == IF n = 0 THEN <<1>> ELSE WithNextPower(PowersOf2(n - 1))

\* The powers of two an integer of the model holds.
Pow2Table == PowersOf2(30)

\* 2^n for n in 0..30
Pow2(n) == Pow2Table[n + 1]

\* A limb holds 15 bits, so that a product of two limbs is below 2^31.
LimbBase == Pow2(15)

RECURSIVE BitLen(_)
\* The number of bits of a natural number below 2^31.
BitLen(n) ==
  IF n >= 256 THEN 8 + BitLen(n \div 256)
  ELSE IF n >= 16 THEN 4 + BitLen(n \div 16)
  ELSE IF n >= 4 THEN 2 + BitLen(n \div 4)
  ELSE IF n >= 2 THEN 2
  ELSE n

RECURSIVE BigOf(_)
\* The limbs of a natural number below 2^31.
BigOf(n) == IF n = 0 THEN <<>> ELSE <<n % LimbBase>> \o BigOf(n \div LimbBase)

RECURSIVE BigTrim(_)
BigTrim(a) ==
  IF a = <<>> \/ a[Len(a)] # 0 THEN a
  ELSE BigTrim(SubSeq(a, 1, Len(a) - 1))

Limb(a, i) == IF i <= Len(a) THEN a[i] ELSE 0

RECURSIVE BigAddFrom(_, _, _, _)
\* The limbs from the i-th on of a + b, the i-th limbs and the carry
\* adding up to t.
BigAddLimb(a, b, i, t) ==
  <<t % LimbBase>> \o BigAddFrom(a, b, i + 1, t \div LimbBase)

BigAddFrom(a, b, i, carry) ==
  IF i > Len(a)
  THEN IF i > Len(b) THEN (IF carry = 0 THEN <<>> ELSE <<carry>>)
       ELSE IF carry = 0 THEN SubSeq(b, i, Len(b))
       ELSE BigAddLimb(a, b, i, b[i] + carry)
  ELSE IF i > Len(b)
  THEN IF carry = 0 THEN SubSeq(a, i, Len(a))
       ELSE BigAddLimb(a, b, i, a[i] + carry)
  ELSE BigAddLimb(a, b, i, a[i] + b[i] + carry)

BigAdd(a, b) == BigAddFrom(a, b, 1, 0)

RECURSIVE BigSubFrom(_, _, _, _)
BigSubFrom(a, b, i, borrow) ==
  IF i > Len(a) THEN <<>>
  ELSE IF a[i] - Limb(b, i) - borrow < 0
       THEN <<a[i] - Limb(b, i) - borrow + LimbBase>>
              \o BigSubFrom(a, b, i + 1, 1)
       ELSE <<a[i] - Limb(b, i) - borrow>> \o BigSubFrom(a, b, i + 1, 0)

\* a - b for a >= b
BigSub(a, b) == BigTrim(BigSubFrom(a, b, 1, 0))

RECURSIVE BigCmpFrom(_, _, _)
BigCmpFrom(a, b, i) ==
  IF i = 0 THEN 0
  ELSE IF a[i] < b[i] THEN -1
  ELSE IF a[i] > b[i] THEN 1
  ELSE BigCmpFrom(a, b, i - 1)

\* -1, 0 or 1 as a < b, a = b or a > b
BigCmp(a, b) ==
  IF Len(a) < Len(b) THEN -1
  ELSE IF Len(a) > Len(b) THEN 1
  ELSE BigCmpFrom(a, b, Len(a))

RECURSIVE BigMulSmallFrom(_, _, _, _)
\* The limbs from the i-th on of a * k, the i-th product and the carry
\* adding up to t.
BigMulLimb(a, k, i, t) ==
  <<t % LimbBase>> \o BigMulSmallFrom(a, k, i + 1, t \div LimbBase)

BigMulSmallFrom(a, k, i, carry) ==
  IF i > Len(a) THEN (IF carry = 0 THEN <<>> ELSE <<carry>>)
  ELSE BigMulLimb(a, k, i, a[i] * k + carry)

\* a * k for 0 <= k < 2^15
BigMulSmall(a, k) ==
  IF k = 0 THEN <<>> ELSE IF k = 1 THEN a ELSE BigMulSmallFrom(a, k, 1, 0)

\* The number with n zero limbs below it: a * 2^(15 n).
BigShlLimbs(a, n) == IF a = <<>> THEN <<>> ELSE [i \in 1..n |-> 0] \o a

RECURSIVE BigMulFrom(_, _, _, _)
BigMulFrom(a, b, i, sum) ==
  IF i > Len(b) THEN sum
  ELSE BigMulFrom(a, b, i + 1,
                  BigAdd(sum, BigShlLimbs(BigMulSmall(a, b[i]), i - 1)))

BigMul(a, b) == BigMulFrom(a, b, 1, <<>>)

RECURSIVE BigDivSmallFrom(_, _, _, _)
\* Long division of the limbs 1..i of a by k, the limbs above having given
\* the quotient limbs done.q and left the remainder done.r: [q, r].
\* The division after the limb i, which with the remainder above it is t.
BigDivLimb(a, k, i, q, t) ==
  BigDivSmallFrom(a, k, i - 1, [q |-> <<t \div k>> \o q, r |-> t % k])

BigDivSmallFrom(a, k, i, done) ==
  IF i = 0 THEN done
  ELSE BigDivLimb(a, k, i, done.q, done.r * LimbBase + a[i])

\* Quotient and remainder of a by k, 0 < k <= 2^15.
BigDivSmall(a, k) ==
  [BigDivSmallFrom(a, k, Len(a), [q |-> <<>>, r |-> 0]) EXCEPT !.q = BigTrim(@)]

BigBitLen(a) ==
  IF a = <<>> THEN 0 ELSE (Len(a) - 1) * 15 + BitLen(a[Len(a)])

BigIsOdd(a) == a # <<>> /\ a[1] % 2 = 1

\* a * 2^n
BigShl(a, n) ==
  BigShlLimbs(BigMulSmall(a, Pow2(n % 15)), n \div 15)

\* The quotient d.q of the limbs above the lowest `limbs` limbs of a, with
\* whether a bit of a was lost: in the remainder d.r or in the limbs below.
BigShrCut(a, limbs, d) ==
  [q |-> d.q,
   lost |-> d.r # 0 \/ \E i \in 1..limbs : i <= Len(a) /\ a[i] # 0]

\* a \div 2^n, and whether a bit of a was lost: [q, lost].
BigShr(a, n) ==
  BigShrCut(a, n \div 15,
            BigDivSmall(IF n \div 15 >= Len(a) THEN <<>>
                        ELSE SubSeq(a, n \div 15 + 1, Len(a)),
                        Pow2(n % 15)))

DblZero == [s |-> 0, m |-> <<>>, e |-> 0]

\* sign * r * 2^e for r of 53 bits, or of 54 bits the lowest of which is 0.
DblCarry(sign, r, e) ==
  IF BigBitLen(r) = 54
  THEN [s |-> sign, m |-> BigDivSmall(r, 2).q, e |-> e + 1]
  ELSE [s |-> sign, m |-> r, e |-> e]

\* The 53 bits of half, rounded up when the bit below them (odd) is set and
\* either more follows below it or half is odd: ties go to the even one.
DblNearest(sign, half, odd, below, e) ==
  DblCarry(sign,
           IF odd /\ (below \/ BigIsOdd(half)) THEN BigAdd(half, <<1>>)
           ELSE half,
           e)

\* c.q holds 54 bits: the mantissa and the bit below it.
DblOfCut(sign, c, lost, e) ==
  DblNearest(sign, BigDivSmall(c.q, 2).q, BigIsOdd(c.q), lost \/ c.lost, e)

\* DblRound for a big of len bits.
DblOfLen(sign, big, lost, exp, len) ==
  IF len <= 53
  THEN [s |-> sign, m |-> BigShl(big, 53 - len), e |-> exp - (53 - len)]
  ELSE DblOfCut(sign, BigShr(big, len - 54), lost, exp + len - 53)

\* The double nearest to sign * x * 2^exp, where x is big, or a little more
\* than big when lost is TRUE (then big has 55 bits at least).
DblRound(sign, big, lost, exp) ==
  IF big = <<>> \/ sign = 0 THEN DblZero
  ELSE DblOfLen(sign, big, lost, exp, BigBitLen(big))

\* The double of an integer, |n| < 2^31.
DblOfInt(n) ==
  DblRound(IF n < 0 THEN -1 ELSE 1, BigOf(IF n < 0 THEN -n ELSE n), FALSE, 0)

DblNeg(a) == [a EXCEPT !.s = -a.s]

\* a + b for a = a.s * x * 2^e and b = b.s * y * 2^e, neither zero: the sum
\* of x and y under one sign, or the difference under the sign of the larger.
DblAddAligned(a, b, x, y, e) ==
  DblRound(IF a.s = b.s \/ BigCmp(x, y) > 0 THEN a.s ELSE b.s,
           IF a.s = b.s THEN BigAdd(x, y)
           ELSE IF BigCmp(x, y) > 0 THEN BigSub(x, y)
           ELSE BigSub(y, x),
           FALSE, e)

\* a + b with both mantissas brought to the exponent e, the smaller of the two.
DblAddAt(a, b, e) ==
  DblAddAligned(a, b, BigShl(a.m, a.e - e), BigShl(b.m, b.e - e), e)

\* a + b
DblAdd(a, b) ==
  IF a.s = 0 THEN b
  ELSE IF b.s = 0 THEN a
  ELSE DblAddAt(a, b, IF a.e < b.e THEN a.e ELSE b.e)

\* a - b
DblSub(a, b) == DblAdd(a, DblNeg(b))

\* a * b
DblMul(a, b) ==
  IF a.s = 0 \/ b.s = 0 THEN DblZero
  ELSE DblRound(a.s * b.s, BigMul(a.m, b.m), FALSE, a.e + b.e)

\* The double nearest to a.s * (d.q, and a little more when d.r is not 0)
\* * 2^(a.e - 30).
DblDivRound(a, d) == DblRound(a.s, d.q, d.r # 0, a.e - 30)

\* a / k for an integer k, 0 < k < 2^15 (the program divides by 3600 and by
\* 100): the quotient of a.m * 2^30 by k has 68 bits or more.
DblDivInt(a, k) ==
  IF a.s = 0 THEN DblZero
  ELSE DblDivRound(a, BigDivSmall(BigShl(a.m, 30), k))

\* The double nearest to n / d, for integers |n| < 2^31 and 0 < d < 2^15:
\* the value of the numeric literal and of n / d on integers.
Dbl(n, d) == DblDivInt(DblOfInt(n), d)

RECURSIVE DblSumFrom(_, _, _)
\* total += list[i], from the i-th element on, in the order of the list
DblSumFrom(list, i, total) ==
  IF i > Len(list) THEN total
  ELSE DblSumFrom(list, i + 1, DblAdd(total, list[i]))

\* let total = 0; for (const x of list) total += x
DblSum(list) == DblSumFrom(list, 1, DblZero)

\* a < b
DblLess(a, b) == DblSub(a, b).s < 0

\* |x| cut below its half bit: c.q holds the integer part and the half bit,
\* c.lost tells whether more follows.  A half goes up (towards +Infinity).
MathRoundCut(x, c) ==
  DblRound(x.s,
           IF BigIsOdd(c.q) /\ (x.s > 0 \/ c.lost)
           THEN BigAdd(BigDivSmall(c.q, 2).q, <<1>>)
           ELSE BigDivSmall(c.q, 2).q,
           FALSE, 0)

\* Math.round(x): the integer nearest to x, a half going up (towards
\* +Infinity); -0 is not told from 0.
MathRound(x) ==
  IF x.s = 0 \/ x.e >= 0 THEN x
  ELSE IF x.e < -54 THEN DblZero
  ELSE MathRoundCut(x, BigShr(x.m, -x.e - 1))

\* The double 100
Hundred == DblOfInt(100)

\* Math.round(x * 100) / 100
Round2(x) == DblDivInt(MathRound(DblMul(x, Hundred)), 100)

(***************************************************************************)
(* holidays.ts                                                             *)
(***************************************************************************)

\* Mutant of calculateEasterSunday: the day of the month is one too small
\* (the final + 1 is missing).
calculateEasterSundayDayBefore(zone, year) ==
  LET a == year % 19
      b == year \div 100
      c == year % 100
      d == b \div 4
      e == b % 4
      f == (b + 8) \div 25
      g == (b - f + 1) \div 3
      h == (19 * a + b - d - g + 15) % 30
      i == c \div 4
      k == c % 4
      l == (32 + 2 * e + 2 * i - h - k) % 7
      m == (a + 11 * h + 22 * l) \div 451
      month == (h + l - 7 * m + 114) \div 31
      day == (h + l - 7 * m + 114) % 31
  IN  NewDate(zone, year, month - 1, day)

calculateEasterSunday(zone, year) ==
  LET a == year % 19
      b == year \div 100
      c == year % 100
      d == b \div 4
      e == b % 4
      f == (b + 8) \div 25
      g == (b - f + 1) \div 3
      h == (19 * a + b - d - g + 15) % 30
      i == c \div 4
      k == c % 4
      l == (32 + 2 * e + 2 * i - h - k) % 7
      m == (a + 11 * h + 22 * l) \div 451
      month == (h + l - 7 * m + 114) \div 31
      day == ((h + l - 7 * m + 114) % 31) + 1
  IN  NewDate(zone, year, month - 1, day)

\* result = new Date(date); result.setDate(result.getDate() + days)
addDays(zone, date, days) == addDaysTo(zone, date, days)

RECURSIVE InsertStr(_, _)
InsertStr(sorted, s) ==
  IF sorted = <<>> THEN <<s>>
  ELSE IF StrCompareFrom(s, sorted[Len(sorted)], 1) >= 0
       THEN Append(sorted, s)
       ELSE Append(InsertStr(SubSeq(sorted, 1, Len(sorted) - 1), s),
                   sorted[Len(sorted)])

RECURSIVE SortStrFrom(_, _, _)
SortStrFrom(list, i, sorted) ==
  IF i > Len(list) THEN sorted
  ELSE SortStrFrom(list, i + 1, InsertStr(sorted, list[i]))

\* array.sort() on strings: ascending by code units
SortStrings(list) == SortStrFrom(list, 1, <<>>)

\* The pushes of getDanishHolidays, in order, given whether the Great Prayer
\* Day branch is taken.
DanishHolidayPushes(zone, year, withPrayerDay) ==
  LET y == NumToStr(year)
      easter == calculateEasterSunday(zone, year)
  IN  << y \o <<"-", "0", "1", "-", "0", "1">>,
         y \o <<"-", "1", "2", "-", "2", "5">>,
         y \o <<"-", "1", "2", "-", "2", "6">>,
         formatDate(addDays(zone, easter, -3)),
         formatDate(addDays(zone, easter, -2)),
         formatDate(easter),
         formatDate(addDays(zone, easter, 1)) >>
      \o (IF withPrayerDay
          THEN <<formatDate(addDays(zone, easter, 26))>>
          ELSE <<>>)
      \o << formatDate(addDays(zone, easter, 39)),
            formatDate(addDays(zone, easter, 49)),
            formatDate(addDays(zone, easter, 50)) >>

\* Mutant of getDanishHolidays: the cutoff year is excluded (year < 2023).
getDanishHolidaysStrictCutoff(zone, year) ==
  SortStrings(DanishHolidayPushes(zone, year, year < 2023))

getDanishHolidays(zone, year) ==
  SortStrings(DanishHolidayPushes(zone, year, year <= 2023))

RECURSIVE Dedupe(_, _, _)
\* Array.from(new Set(list)): first occurrences, in insertion order
Dedupe(list, i, seen) ==
  IF i > Len(list) THEN seen
  ELSE IF \E j \in 1..Len(seen) : seen[j] = list[i]
       THEN Dedupe(list, i + 1, seen)
       ELSE Dedupe(list, i + 1, Append(seen, list[i]))

\* Mutant of getAllHolidays: the combined list is sorted without removing
\* duplicates.
getAllHolidaysNoDedupe(zone, year, customHolidays) ==
  LET danishHolidays == getDanishHolidays(zone, year)
      yearPrefix == NumToStr(year) \o <<"-">>
      wanted == SelectSeq(customHolidays,
                  LAMBDA h : startsWith(h, yearPrefix)
                             \/ startsWith(h, <<"*", "-">>))
      customHolidaysForYear ==
        [j \in 1..Len(wanted) |->
           IF startsWith(wanted[j], <<"*", "-">>)
           THEN NumToStr(year) \o slice(wanted[j], 1)
           ELSE wanted[j]]
  IN  SortStrings(danishHolidays \o customHolidaysForYear)

getAllHolidays(zone, year, customHolidays) ==
  LET danishHolidays == getDanishHolidays(zone, year)
      yearPrefix == NumToStr(year) \o <<"-">>
      wanted == SelectSeq(customHolidays,
                  LAMBDA h : startsWith(h, yearPrefix)
                             \/ startsWith(h, <<"*", "-">>))
      customHolidaysForYear ==
        [j \in 1..Len(wanted) |->
           IF startsWith(wanted[j], <<"*", "-">>)
           THEN NumToStr(year) \o slice(wanted[j], 1)
           ELSE wanted[j]]
      allHolidays == Dedupe(danishHolidays \o customHolidaysForYear, 1, <<>>)
  IN  SortStrings(allHolidays)

\* holidays.includes(dateStr)
isHoliday(dateStr, holidays) ==
  \E i \in 1..Len(holidays) : holidays[i] = dateStr

(***************************************************************************)
(* calculator.ts                                                           *)
(***************************************************************************)

isWeekend(date) ==
  LET day == getDay(date) IN day = 0 \/ day = 6

RECURSIVE DateRangeFrom(_, _, _, _)
\* The loop of getDateRange: while (current <= endDate) push, next day.
DateRangeFrom(zone, current, endDate, dates) ==
  IF DateLeq(current, endDate)
  THEN DateRangeFrom(zone, addDaysTo(zone, current, 1), endDate,
                     Append(dates, current))
  ELSE dates

getDateRange(zone, startDate, endDate) ==
  DateRangeFrom(zone, startDate, endDate, <<>>)

countWorkdays(zone, startDate, endDate, holidays) ==
  LET dates == getDateRange(zone, startDate, endDate)
  IN  Len(SelectSeq(dates,
        LAMBDA date : IF isWeekend(date) THEN FALSE
                      ELSE IF isHoliday(formatDate(date), holidays) THEN FALSE
                      ELSE TRUE))

calculateRequiredHours(zone, startDate, endDate, hoursPerDay, holidays) ==
  LET workdays == countWorkdays(zone, startDate, endDate, holidays)
  IN  DblMul(DblOfInt(workdays), hoursPerDay)

RECURSIVE ReduceSeconds(_, _, _)
\* entries.reduce((sum, entry) => sum + entry.durationSeconds, 0)
ReduceSeconds(entries, i, sum) ==
  IF i > Len(entries) THEN sum
  ELSE ReduceSeconds(entries, i + 1, sum + entries[i].durationSeconds)

\* Mutant of sumActualHours: the seconds are divided by 60.
sumActualHoursPerMinute(entries) ==
  Dbl(ReduceSeconds(entries, 1, 0), 60)

sumActualHours(entries) ==
  LET totalSeconds == ReduceSeconds(entries, 1, 0)
  IN  Dbl(totalSeconds, 3600)

calculateFlexBalance(actualHours, requiredHours) ==
  DblSub(actualHours, requiredHours)

calculatePartialWeekHours(zone, today, hoursPerDay, holidays) ==
  LET dayOfWeek == getDay(today)
      daysToMonday == IF dayOfWeek = 0 THEN 6 ELSE dayOfWeek - 1
      monday == setHours(zone, addDaysTo(zone, today, -daysToMonday),
                         0, 0, 0, 0)
  IN  calculateRequiredHours(zone, monday, today, hoursPerDay, holidays)

\* The object calculateFlexTime returns, from the values of its constants.
FlexResultOf(startDate, endDate, workdays, requiredHours, actualHours) ==
  [startDate |-> startDate, endDate |-> endDate,
   requiredHours |-> requiredHours, actualHours |-> actualHours,
   flexBalance |-> calculateFlexBalance(actualHours, requiredHours),
   workdays |-> workdays]

\* calculateFlexTime from const workdays on: requiredHours = workdays *
\* hoursPerDay, actualHours = sumActualHours(entries).
FlexTimeOfWorkdays(startDate, endDate, entries, hoursPerDay, workdays) ==
  FlexResultOf(startDate, endDate, workdays,
               DblMul(DblOfInt(workdays), hoursPerDay),
               sumActualHours(entries))

calculateFlexTime(zone, startDate, endDate, entries, hoursPerDay, holidays) ==
  FlexTimeOfWorkdays(startDate, endDate, entries, hoursPerDay,
                     countWorkdays(zone, startDate, endDate, holidays))

(***************************************************************************)
(* toggl.ts                                                                *)
(***************************************************************************)

\* new Date(isoString) read in local time: the instant [day, ms] in UTC
\* under the offset that the zone of the process has at that instant.
utcToLocalDate(zone, start) == formatDate(ToLocal(zone, start))

\* A raw time entry is [start, duration]: the start instant and the duration
\* in seconds, negative while the entry is running.
simplifyEntries(zone, rawEntries) ==
  LET done == SelectSeq(rawEntries, LAMBDA entry : entry.duration >= 0)
  IN  [i \in 1..Len(done) |->
         [date |-> utcToLocalDate(zone, done[i].start),
          durationSeconds |-> done[i].duration]]

(***************************************************************************)
(* weeks.ts: week partitioning                                             *)
(***************************************************************************)

\* Math.ceil(a / b) for b > 0
CeilDiv(a, b) == -((-a) \div b)

\* Math.ceil(((d.getTime() - yearStart.getTime()) / 86400000 + 1) / 7).  The
\* difference of the time values is kept as whole days and milliseconds,
\* so that no product of days and milliseconds is formed; a fraction of a
\* day is far from the rounding error of the two divisions.
WeeksOfTime(elapsed) ==
  IF elapsed.ms = 0 THEN CeilDiv(elapsed.days + 1, 7)
  ELSE ((elapsed.days + 1) \div 7) + 1

WeeksElapsed(zone, d, yearStart) == WeeksOfTime(TimeBetween(zone, d, yearStart))

getMonday(zone, date) ==
  LET day == getDay(date)
      diff == getDate(date) - day + (IF day = 0 THEN -6 ELSE 1)
  IN  setHours(zone, addDaysTo(zone, date, diff - getDate(date)), 0, 0, 0, 0)

\* getWeekNumber from d.setDate(d.getDate() + 4 - (d.getDay() || 7)) on.
WeekNumberOfThursday(zone, d) ==
  WeeksElapsed(zone, d, NewDate(zone, getFullYear(d), 0, 1))

\* getWeekNumber from d.setHours(0, 0, 0, 0) on.
WeekNumberOfDay(zone, d) ==
  WeekNumberOfThursday(
    zone, addDaysTo(zone, d, 4 - (IF getDay(d) = 0 THEN 7 ELSE getDay(d))))

getWeekNumber(zone, date) ==
  WeekNumberOfDay(zone, setHours(zone, date, 0, 0, 0, 0))

\* currentMonday < startDate ? startDate : currentMonday
effectiveStartOf(currentMonday, startDate) ==
  IF DateLess(currentMonday, startDate) THEN startDate ELSE currentMonday

\* weekEnd > endDate ? endDate : weekEnd
effectiveEndOf(weekEnd, endDate) ==
  IF DateLess(endDate, weekEnd) THEN endDate ELSE weekEnd

\* entries.filter((e) => e.date >= weekStartStr && e.date <= weekEndStr)
WeekEntries(entries, weekStartStr, weekEndStr) ==
  SelectSeq(entries, LAMBDA e : /\ StrLeq(weekStartStr, e.date)
                                /\ StrLeq(e.date, weekEndStr))

\* The body of the loop of getWeekRanges from effectiveStart and
\* effectiveEnd on: the WeekData pushed for currentMonday.
WeekOfMonday(zone, currentMonday, effectiveStart, effectiveEnd, entries) ==
  [weekNumber |-> getWeekNumber(zone, currentMonday),
   year |-> getFullYear(currentMonday),
   startDate |-> effectiveStart,
   endDate |-> effectiveEnd,
   entries |-> WeekEntries(entries, formatDate(effectiveStart),
                           formatDate(effectiveEnd))]

RECURSIVE WeekRangesFrom(_, _, _, _, _)
\* The while loop of getWeekRanges, from the loop state [currentMonday, weeks].
WeekRangesFrom(zone, loop, startDate, endDate, entries) ==
  IF ~DateLeq(loop.currentMonday, endDate) THEN loop.weeks
  ELSE WeekRangesFrom(
         zone,
         [currentMonday |-> addDaysTo(zone, loop.currentMonday, 7),
          weeks |->
            Append(loop.weeks,
                   WeekOfMonday(
                     zone, loop.currentMonday,
                     effectiveStartOf(loop.currentMonday, startDate),
                     effectiveEndOf(
                       setHours(zone, addDaysTo(zone, loop.currentMonday, 6),
                                23, 59, 59, 999),
                       endDate),
                     entries))],
         startDate, endDate, entries)

getWeekRanges(zone, startDate, endDate, entries) ==
  WeekRangesFrom(zone,
                 [currentMonday |-> getMonday(zone, startDate),
                  weeks |-> <<>>],
                 startDate, endDate, entries)

(***************************************************************************)
(* trend.ts: the periods of the trend chart                                *)
(***************************************************************************)

\* `W${weekNumber.toString().padStart(2, "0")}`
WeekLabel(weekNumber) == <<"W">> \o padStart(NumToStr(weekNumber), 2, "0")

\* months[month] ?? "???"
getMonthAbbrev(month) ==
  IF month \in 0..11
  THEN << <<"J", "a", "n">>, <<"F", "e", "b">>, <<"M", "a", "r">>,
          <<"A", "p", "r">>, <<"M", "a", "y">>, <<"J", "u", "n">>,
          <<"J", "u", "l">>, <<"A", "u", "g">>, <<"S", "e", "p">>,
          <<"O", "c", "t">>, <<"N", "o", "v">>, <<"D", "e", "c">> >>[month + 1]
  ELSE <<"?", "?", "?">>

\* `${year}-${month}`
MonthKey(year, month) == NumToStr(year) \o <<"-">> \o NumToStr(month)

\* periods.push({ label, delta, cumulative }) with the new cumulative, and
\* the loop state [i, cumulative, periods] after it.
PeriodPushed(loop, label, delta, total) ==
  [i |-> loop.i + 1,
   cumulative |-> total,
   periods |-> Append(loop.periods,
                      [label |-> label, delta |-> delta,
                       cumulative |-> total])]

\* cumulative += delta; periods.push({ label, delta, cumulative })
PeriodAdded(loop, label, delta) ==
  PeriodPushed(loop, label, delta, DblAdd(loop.cumulative, delta))

RECURSIVE PeriodsFrom(_, _, _, _, _)
\* The loop of calculatePeriods, from the loop state [i, cumulative, periods]
\* with i the position of the next week.
PeriodsFrom(zone, loop, weeks, hoursPerDay, holidays) ==
  IF loop.i > Len(weeks) THEN loop.periods
  ELSE PeriodsFrom(
         zone,
         PeriodAdded(loop, WeekLabel(weeks[loop.i].weekNumber),
                     calculateFlexTime(zone, weeks[loop.i].startDate,
                                       weeks[loop.i].endDate,
                                       weeks[loop.i].entries, hoursPerDay,
                                       holidays).flexBalance),
         weeks, hoursPerDay, holidays)

calculatePeriods(zone, weeks, hoursPerDay, holidays) ==
  PeriodsFrom(zone, [i |-> 1, cumulative |-> DblZero, periods |-> <<>>],
              weeks, hoursPerDay, holidays)

RECURSIVE GroupWeeksByMonth(_, _)
\* The first loop of aggregateByMonth, from the loop state [i, monthMap]:
\* the Map from key to the weeks of the month, in insertion order.
GroupWeeksByMonth(loop, weeks) ==
  IF loop.i > Len(weeks) THEN loop.monthMap
  ELSE LET week == weeks[loop.i]
           monthMap == loop.monthMap
           month == getMonth(week.startDate)
           year == getFullYear(week.startDate)
           key == MonthKey(year, month)
           j == MapIndexOf(monthMap, key, 1)
       IN  GroupWeeksByMonth(
             [i |-> loop.i + 1,
              monthMap |->
                IF j = 0
                THEN Append(monthMap,
                            [key |-> key,
                             value |-> [weeks |-> <<week>>, month |-> month,
                                        year |-> year]])
                ELSE [monthMap EXCEPT
                        ![j].value.weeks = Append(monthMap[j].value.weeks,
                                                  week)]],
             weeks)

RECURSIVE MonthDeltaFrom(_, _, _, _, _, _)
\* The inner loop of aggregateByMonth: the sum of the weeks' flex balances.
MonthDeltaFrom(zone, monthWeeks, i, hoursPerDay, holidays, monthDelta) ==
  IF i > Len(monthWeeks) THEN monthDelta
  ELSE MonthDeltaFrom(zone, monthWeeks, i + 1, hoursPerDay, holidays,
         DblAdd(monthDelta,
                calculateFlexTime(zone, monthWeeks[i].startDate,
                                  monthWeeks[i].endDate,
                                  monthWeeks[i].entries, hoursPerDay,
                                  holidays).flexBalance))

RECURSIVE MonthPeriodsFrom(_, _, _, _, _, _)
\* The loop of aggregateByMonth over the sorted keys, from the loop state
\* [i, cumulative, periods].
MonthPeriodsFrom(zone, loop, sortedKeys, monthMap, hoursPerDay, holidays) ==
  IF loop.i > Len(sortedKeys) THEN loop.periods
  ELSE LET group == monthMap[MapIndexOf(monthMap, sortedKeys[loop.i],
                                        1)].value
       IN  MonthPeriodsFrom(
             zone,
             PeriodAdded(loop, getMonthAbbrev(group.month),
                         MonthDeltaFrom(zone, group.weeks, 1, hoursPerDay,
                                        holidays, DblZero)),
             sortedKeys, monthMap, hoursPerDay, holidays)

\* Array.from(monthMap.keys()).sort(): ascending by code units
SortMonthKeys(monthMap) ==
  SortStrings([i \in 1..Len(monthMap) |-> monthMap[i].key])

\* aggregateByMonth from the filled monthMap on.
MonthPeriodsOf(zone, monthMap, hoursPerDay, holidays) ==
  MonthPeriodsFrom(zone, [i |-> 1, cumulative |-> DblZero, periods |-> <<>>],
                   SortMonthKeys(monthMap), monthMap, hoursPerDay, holidays)

aggregateByMonth(zone, weeks, hoursPerDay, holidays) ==
  MonthPeriodsOf(zone, GroupWeeksByMonth([i |-> 1, monthMap |-> <<>>], weeks),
                 hoursPerDay, holidays)

(***************************************************************************)
(* weeks.ts, daily.ts, web.ts: the outputs handed to JSON consumers        *)
(***************************************************************************)

\* The object the callback returns for a week with the new cumulativeFlex,
\* and the loop state [i, cumulativeFlex, out] after it.
WeeklyJsonPushed(loop, week, result, total) ==
  [i |-> loop.i + 1,
   cumulativeFlex |-> total,
   out |-> Append(loop.out,
                  [weekNumber |-> week.weekNumber,
                   year |-> week.year,
                   period |-> [start |-> formatDate(week.startDate),
                               end |-> formatDate(week.endDate)],
                   requiredHours |-> Round2(result.requiredHours),
                   actualHours |-> Round2(result.actualHours),
                   flexBalance |-> Round2(result.flexBalance),
                   cumulativeFlex |-> Round2(total)])]

\* cumulativeFlex += result.flexBalance; return { ... }
WeeklyJsonAdded(loop, week, result) ==
  WeeklyJsonPushed(loop, week, result,
                   DblAdd(loop.cumulativeFlex, result.flexBalance))

RECURSIVE WeeklyJsonFrom(_, _, _, _, _)
\* The map callback of buildWeeklyJson, from the loop state
\* [i, cumulativeFlex, out].
WeeklyJsonFrom(zone, loop, weeks, hoursPerDay, holidays) ==
  IF loop.i > Len(weeks) THEN loop.out
  ELSE WeeklyJsonFrom(
         zone,
         WeeklyJsonAdded(loop, weeks[loop.i],
                         calculateFlexTime(zone, weeks[loop.i].startDate,
                                           weeks[loop.i].endDate,
                                           weeks[loop.i].entries, hoursPerDay,
                                           holidays)),
         weeks, hoursPerDay, holidays)

buildWeeklyJson(zone, weeks, hoursPerDay, holidays) ==
  WeeklyJsonFrom(zone, [i |-> 1, cumulativeFlex |-> DblZero, out |-> <<>>],
                 weeks, hoursPerDay, holidays)

\* The first map of buildTrendJson: year is the year of the week's Monday,
\* month the month of the window's start date.
TrendWeeklyData(zone, weeks, hoursPerDay, holidays) ==
  [i \in 1..Len(weeks) |->
     [weekNumber |-> weeks[i].weekNumber,
      year |-> weeks[i].year,
      month |-> getMonth(weeks[i].startDate),
      delta |-> calculateFlexTime(zone, weeks[i].startDate, weeks[i].endDate,
                                  weeks[i].entries, hoursPerDay,
                                  holidays).flexBalance]]

\* monthNames[month] ?? "Unknown"
monthNames(month) ==
  IF month \in 0..11 THEN getMonthAbbrev(month)
  ELSE <<"U", "n", "k", "n", "o", "w", "n">>

RECURSIVE TrendMonthlyMap(_, _)
\* The loop of buildTrendJson that fills monthlyMap, in insertion order,
\* from the loop state [i, monthlyMap].
TrendMonthlyMap(loop, weeklyData) ==
  IF loop.i > Len(weeklyData) THEN loop.monthlyMap
  ELSE LET w == weeklyData[loop.i]
           monthlyMap == loop.monthlyMap
           key == MonthKey(w.year, w.month)
           j == MapIndexOf(monthlyMap, key, 1)
       IN  TrendMonthlyMap(
             [i |-> loop.i + 1,
              monthlyMap |->
                IF j # 0
                THEN [monthlyMap EXCEPT
                        ![j].value.delta = DblAdd(monthlyMap[j].value.delta,
                                                  w.delta)]
                ELSE Append(monthlyMap,
                            [key |-> key,
                             value |-> [label |-> monthNames(w.month),
                                        delta |-> w.delta]])],
             weeklyData)

\* The period returned for an item with the new cumulative, and the loop
\* state [i, cumulative, periods] after it.
TrendPeriodPushed(loop, item, total) ==
  [i |-> loop.i + 1,
   cumulative |-> total,
   periods |-> Append(loop.periods,
                      [label |-> item.label,
                       delta |-> Round2(item.delta),
                       cumulative |-> Round2(total)])]

RECURSIVE TrendPeriodsFrom(_, _)
\* The maps that turn [label, delta] items into rounded periods with a
\* running cumulative of the unrounded deltas, from the loop state
\* [i, cumulative, periods].
TrendPeriodsFrom(loop, items) ==
  IF loop.i > Len(items) THEN loop.periods
  ELSE TrendPeriodsFrom(
         TrendPeriodPushed(loop, items[loop.i],
                           DblAdd(loop.cumulative, items[loop.i].delta)),
         items)

\* Array.from(monthlyMap.values())
TrendMonthlyItems(monthlyMap) ==
  [i \in 1..Len(monthlyMap) |-> monthlyMap[i].value]

\* weeklyData.map((w) => ({ label: `W..`, delta: w.delta }))
TrendWeeklyItems(weeklyData) ==
  [i \in 1..Len(weeklyData) |->
     [label |-> WeekLabel(weeklyData[i].weekNumber),
      delta |-> weeklyData[i].delta]]

\* buildTrendJson from const weeklyData on.
TrendJsonOf(weeklyData, granularity) ==
  [granularity |-> granularity,
   periods |->
     TrendPeriodsFrom(
       [i |-> 1, cumulative |-> DblZero, periods |-> <<>>],
       IF granularity = "monthly"
       THEN TrendMonthlyItems(TrendMonthlyMap([i |-> 1, monthlyMap |-> <<>>],
                                              weeklyData))
       ELSE TrendWeeklyItems(weeklyData))]

buildTrendJson(zone, weeks, hoursPerDay, holidays, granularity) ==
  TrendJsonOf(TrendWeeklyData(zone, weeks, hoursPerDay, holidays),
              granularity)

\* The DailyData pushed for a day, from the values of the constants of
\* the loop body.
DailyPushed(dateStr, dayOfWeek, weekend, holiday, actualHours, requiredHours) ==
  [date |-> dateStr,
   dayOfWeek |-> dayOfWeek,
   actualHours |-> actualHours,
   requiredHours |-> requiredHours,
   flexBalance |-> DblSub(actualHours, requiredHours),
   isWeekend |-> weekend,
   isHoliday |-> holiday]

\* The loop body from const weekend, holiday and totalSeconds on:
\* isWorkday = !weekend && !holiday, actualHours = totalSeconds / 3600,
\* requiredHours = isWorkday ? hoursPerDay : 0.
DailyOfSeconds(dateStr, dayOfWeek, weekend, holiday, totalSeconds, hoursPerDay) ==
  DailyPushed(dateStr, dayOfWeek, weekend, holiday, Dbl(totalSeconds, 3600),
              IF ~weekend /\ ~holiday THEN hoursPerDay ELSE DblZero)

\* entriesByDate.get(dateStr) ?? 0, with j the position of dateStr
DailySeconds(entriesByDate, j) ==
  IF j = 0 THEN 0 ELSE entriesByDate[j].value

\* The loop body from const dateStr and dayOfWeek on.
DailyOfDate(dateStr, dayOfWeek, entriesByDate, hoursPerDay, holidays) ==
  DailyOfSeconds(dateStr, dayOfWeek, dayOfWeek = 0 \/ dayOfWeek = 6,
                 isHoliday(dateStr, holidays),
                 DailySeconds(entriesByDate,
                              MapIndexOf(entriesByDate, dateStr, 1)),
                 hoursPerDay)

RECURSIVE DailyFrom(_, _, _, _, _, _, _)
\* The while loop of buildDailyData.
DailyFrom(zone, current, end, entriesByDate, hoursPerDay, holidays, days) ==
  IF ~DateLeq(current, end) THEN days
  ELSE DailyFrom(zone, addDaysTo(zone, current, 1), end, entriesByDate,
                 hoursPerDay, holidays,
                 Append(days,
                        DailyOfDate(formatDate(current), getDay(current),
                                    entriesByDate, hoursPerDay, holidays)))

RECURSIVE DailyEntriesByDate(_, _, _)
\* entriesByDate.set(entry.date, (entriesByDate.get(entry.date) ?? 0) + ...)
DailyEntriesByDate(entries, i, entriesByDate) ==
  IF i > Len(entries) THEN entriesByDate
  ELSE LET j == MapIndexOf(entriesByDate, entries[i].date, 1)
       IN  DailyEntriesByDate(entries, i + 1,
             IF j = 0
             THEN Append(entriesByDate,
                         [key |-> entries[i].date,
                          value |-> entries[i].durationSeconds])
             ELSE [entriesByDate EXCEPT
                     ![j].value = entriesByDate[j].value
                                  + entries[i].durationSeconds])

\* Mutant of buildDailyData: the series starts on the day after startDate.
buildDailyDataFromNextDay(zone, startDate, endDate, entries, hoursPerDay, holidays) ==
  DailyFrom(zone, addDaysTo(zone, setHours(zone, startDate, 0, 0, 0, 0), 1),
            setHours(zone, endDate, 23, 59, 59, 999),
            DailyEntriesByDate(entries, 1, <<>>), hoursPerDay, holidays, <<>>)

buildDailyData(zone, startDate, endDate, entries, hoursPerDay, holidays) ==
  DailyFrom(zone, setHours(zone, startDate, 0, 0, 0, 0),
            setHours(zone, endDate, 23, 59, 59, 999),
            DailyEntriesByDate(entries, 1, <<>>), hoursPerDay, holidays, <<>>)

\* computeEndDate of web.ts, with current the value of new Date()
computeEndDate(zone, withToday, current) ==
  IF withToday THEN setHours(zone, current, 23, 59, 59, 999)
  ELSE setHours(zone, addDaysTo(zone, current, -1), 23, 59, 59, 999)

\* The object of the summary, from const result on.
SummaryOf(startDate, endOfRange, config, result) ==
  [period |-> [start |-> formatDate(startDate),
               end |-> formatDate(endOfRange)],
   workdays |-> result.workdays,
   requiredHours |-> Round2(result.requiredHours),
   actualHours |-> Round2(result.actualHours),
   flexBalance |-> Round2(result.flexBalance),
   config |-> [hoursPerDay |-> config.hoursPerDay,
               hoursPerWeek |-> config.hoursPerWeek]]

\* The JSON summary that main prints for --json.
summaryJsonOutput(zone, startDate, endOfRange, entries, config, holidays) ==
  SummaryOf(startDate, endOfRange, config,
            calculateFlexTime(zone, startDate, endOfRange, entries,
                              config.hoursPerDay, holidays))

\* buildDashboardData from const weeks on: the object it returns.
DashboardOfWeeks(zone, params, endOfRange, entries, weeks) ==
  [summary |->
     summaryJsonOutput(zone, params.startDate, endOfRange, entries,
                       [hoursPerDay |-> params.hoursPerDay,
                        hoursPerWeek |-> params.hoursPerWeek],
                       params.holidays),
   weekly |-> buildWeeklyJson(zone, weeks, params.hoursPerDay,
                              params.holidays),
   daily |-> buildDailyData(zone, params.startDate, endOfRange, entries,
                            params.hoursPerDay, params.holidays),
   trend |-> buildTrendJson(zone, weeks, params.hoursPerDay,
                            params.holidays, "weekly"),
   monthlyTrend |-> buildTrendJson(zone, weeks, params.hoursPerDay,
                                   params.holidays, "monthly")]

\* buildDashboardData from const entries on.
DashboardOfEntries(zone, params, endOfRange, entries) ==
  DashboardOfWeeks(zone, params, endOfRange, entries,
                   getWeekRanges(zone, params.startDate, endOfRange, entries))

\* buildDashboardData from const endDate on.
DashboardUpTo(zone, params, endOfRange) ==
  DashboardOfEntries(zone, params, endOfRange,
                     WeekEntries(params.allEntries,
                                 formatDate(params.startDate),
                                 formatDate(endOfRange)))

\* buildDashboardData of web.ts, with current the value of new Date():
\* endDate = computeEndDate(includeToday), entries is allEntries filtered to
\* startStr <= e.date <= endStr, weeks = getWeekRanges(startDate, endDate,
\* entries), and the five fields are computed from these locals.
buildDashboardData(zone, params, withToday, current) ==
  DashboardUpTo(zone, params, computeEndDate(zone, withToday, current))

(***************************************************************************)
(* config.ts                                                               *)
(*                                                                         *)
(* A JSON value is a record [t, v]: t is "string" (v a string), "number"   *)
(* (v a rational), "array" (v a sequence of JSON values), "object" (v a    *)
(* record of JSON values), "null" or "undefined" (a missing property).     *)
(***************************************************************************)

IsDigit(ch) == ch \in {"0", "1", "2", "3", "4", "5", "6", "7", "8", "9"}

\* /^\d{4}-\d{2}-\d{2}$/.test(str)
dateRegexTest(str) ==
  /\ Len(str) = 10
  /\ \A i \in {1, 2, 3, 4, 6, 7, 9, 10} : IsDigit(str[i])
  /\ str[5] = "-" /\ str[8] = "-"

ConfigOk == [ok |-> TRUE, error |-> "none"]

\* throw new Error(...): the field the message names.
ConfigError(field) == [ok |-> FALSE, error |-> field]

\* const c = config as Record<string, unknown>: the properties validateConfig
\* reads.  An array is an object none of whose properties has one of these
\* names, so each of them reads as undefined.
ConfigProperties(config) ==
  IF config.t = "object" THEN config.v
  ELSE [togglApiToken |-> [t |-> "undefined"],
        workspaceId |-> [t |-> "undefined"],
        hoursPerWeek |-> [t |-> "undefined"],
        hoursPerDay |-> [t |-> "undefined"],
        customHolidays |-> [t |-> "undefined"]]

\* validateConfig returns false for a value whose typeof is not "object" and
\* for null (typeof [] is "object"), and throws for the first field that
\* fails its test; loadConfig turns the false into the error "Invalid config
\* structure".
validateConfig(config) ==
  IF config.t \notin {"object", "array"} THEN ConfigError("structure")
  ELSE LET c == ConfigProperties(config)
       IN  IF c.togglApiToken.t # "string" \/ Len(c.togglApiToken.v) = 0
           THEN ConfigError("togglApiToken")
           ELSE IF c.workspaceId.t # "number" \/ c.workspaceId.v[2] # 1
           THEN ConfigError("workspaceId")
           ELSE IF c.hoursPerWeek.t # "number" \/ c.hoursPerWeek.v[1] <= 0
           THEN ConfigError("hoursPerWeek")
           ELSE IF c.hoursPerDay.t # "number" \/ c.hoursPerDay.v[1] <= 0
           THEN ConfigError("hoursPerDay")
           ELSE IF c.customHolidays.t # "array"
           THEN ConfigError("customHolidays")
           ELSE IF \E i \in 1..Len(c.customHolidays.v) :
                     \/ c.customHolidays.v[i].t # "string"
                     \/ ~dateRegexTest(c.customHolidays.v[i].v)
           THEN ConfigError("customHolidays")
           ELSE ConfigOk

\* The config file is [exists, reads, parses, value]: whether config.json is
\* there, whether readFileSync returns its content (it throws on a
\* directory), whether JSON.parse accepts the content, and the value parsed.
\* An error of the try block that is no SyntaxError is thrown on as it is.
loadConfig(file) ==
  IF ~file.exists THEN ConfigError("file")
  ELSE IF ~file.reads THEN ConfigError("other")
  ELSE IF ~file.parses THEN ConfigError("json")
  ELSE validateConfig(file.value)

(***************************************************************************)
(* State                                                                   *)
(***************************************************************************)

VARIABLES
  \* one call of mergeEntries: its arguments and its result
  cached, fresh, freshStartDate, merged, mergeDone,
  \* the result of merging the same fresh entries into merged once more:
  \* empty until the run is repeated, then the one list
  remerged,
  \* one call of calculateFetchRange: its arguments and its result
  frCache, frYearStart, frEndDate, frResult, frDone,
  \* one call into calculator.ts: the arguments, which function has run
  \* ("input" before the call) and what it returned
  calcStart, calcEnd, calcEntries, calcHoursPerDay, calcHolidays,
  calcPc, calcWorkdays, calcResult, calcPartial,
  \* one call into holidays.ts: the arguments, which function has run and
  \* the list it returned
  holYear, holCustom, holPc, holResult,
  \* successive runs of main against one cache file:
  \*   cacheFile        the cache file on disk
  \*   now              the value new Date() gave last in the current run
  \*   tz               the time zone of the process (the zone every Date
  \*                    of every call is read in)
  \*   pc               "idle", "fetching" (awaiting getTimeEntries),
  \*                    "starting" (with --web: the cache is saved, awaiting
  \*                    import("./web") and startWebDashboard), "done"
  \*   includeToday, showWeb   the flags of the run
  \*   startOfYear, endDate, allHolidays, cache, fetchStart, fetchEnd,
  \*   needsFullFetch, freshEntries, allEntries     the locals of main
  \*   saveCalls        calls of saveCache in the run
  \*   output, exitCode what the run produced
  \*   runs             runs started so far
  cacheFile, now, tz, pc, includeToday, showWeb,
  startOfYear, endDate, allHolidays, cache, fetchStart, fetchEnd,
  needsFullFetch, freshEntries, allEntries, saveCalls, output, exitCode,
  runs,
  \* one call of loadConfig: the config file, whether the call has been made
  \* and what it returned or threw
  cfgFile, cfgPc, cfgOutcome,
  \* one call into the week partitioning of weeks.ts: the arguments of
  \* getWeekRanges, the argument of getWeekNumber, which function has run and
  \* the results
  wkStart, wkEnd, wkEntries, wkDate, wkPc, wkWeeks, wkNumber,
  \* one call of a function that builds an output (trend periods, weekly
  \* breakdown, day-by-day series, dashboard data): the range, the entries,
  \* the configured hours, the holidays, which function has run and what it
  \* returned
  vwStart, vwEnd, vwEntries, vwHoursPerDay, vwHolidays, vwPc, vwOut, vwJson,
  \* one page of the web dashboard and its requests to /api/data:
  \*   pageKind          "script" (the page of getDashboardHtml) or "hook"
  \*                     (a component using useDashboardData)
  \*   pageOpen          the page has been loaded in the browser
  \*   pageIncludeToday  includeToday of the page: the toggle
  \*   pageBound         window._toggleBound
  \*   pageData          the data last rendered (last passed to setData)
  \*   pageRequests      the requests in flight, in the order sent: what
  \*                     each asked for and the response, once the server
  \*                     has computed it
  \*   pageToggles       clicks on the toggle so far
  pageKind, pageOpen, pageIncludeToday, pageBound, pageData, pageRequests,
  pageToggles

mergeVars == <<cached, fresh, freshStartDate, merged, mergeDone, remerged>>
rangeVars == <<frCache, frYearStart, frEndDate, frResult, frDone>>
calcVars == <<calcStart, calcEnd, calcEntries, calcHoursPerDay, calcHolidays,
              calcPc, calcWorkdays, calcResult, calcPartial>>
holVars == <<holYear, holCustom, holPc, holResult>>
runLocals == <<includeToday, showWeb, startOfYear, endDate, allHolidays, cache,
               fetchStart, fetchEnd, needsFullFetch, freshEntries, allEntries>>
runVars == <<cacheFile, now, tz, pc, runLocals, saveCalls,
             output, exitCode, runs>>

cfgVars == <<cfgFile, cfgPc, cfgOutcome>>
weekVars == <<wkStart, wkEnd, wkEntries, wkDate, wkPc, wkWeeks, wkNumber>>
viewVars == <<vwStart, vwEnd, vwEntries, vwHoursPerDay, vwHolidays, vwPc,
              vwOut, vwJson>>

pageVars == <<pageKind, pageOpen, pageIncludeToday, pageBound, pageData,
              pageRequests, pageToggles>>

vars == <<mergeVars, rangeVars, calcVars, holVars, runVars, cfgVars,
          weekVars, viewVars, pageVars>>

\* The local times 00:00:00.000 and 23:59:59.999 of a day.
Midnight(n) == [day |-> n, ms |-> 0]
EndOfDay(n) == [day |-> n, ms |-> MsPerDay - 1]

\* Zones of the tz database, each with its change of offset in the days of
\* the specification that runs under it:
\*   Africa/Cairo        Friday 2025-04-25, 00:00 -> 01:00
\*   America/Santiago    Sunday 2025-09-07, 00:00 -> 01:00, and
\*                       Sunday 2021-04-04, 24:00 of Saturday -> 23:00
\*   America/Havana      Sunday 2025-03-09, 00:00 -> 01:00
\*   America/Nuuk        Saturday 2025-03-29, 23:00 -> 00:00 of Sunday
\*   Asia/Beirut         the last Sunday of March, 00:00 -> 01:00
\*   Asia/Tehran         Monday 2021-03-22, 00:00 -> 01:00
\*   Europe/Copenhagen   Sunday 2025-03-30, 02:00 -> 03:00
Cairo2025 == Zone(120, DaysFromCivil(2025, 4, 25), 0, 60)
Santiago2025 == Zone(-240, DaysFromCivil(2025, 9, 7), 0, 60)
Santiago2021 == Zone(-180, DaysFromCivil(2021, 4, 4), 0, -60)
Havana2025 == Zone(-300, DaysFromCivil(2025, 3, 9), 0, 60)
Nuuk2025 == Zone(-120, DaysFromCivil(2025, 3, 29), 82800000, 60)
LastSundayOfMarch(year) ==
  DaysFromCivil(year, 3, 31) - getDay(Midnight(DaysFromCivil(year, 3, 31)))
Beirut(year) == Zone(120, LastSundayOfMarch(year), 0, 60)
Tehran2021 == Zone(210, DaysFromCivil(2021, 3, 22), 0, 60)
Copenhagen2025 == Zone(60, DaysFromCivil(2025, 3, 30), 7200000, 60)

NoRange ==
  [startDate |-> Midnight(0), endDate |-> Midnight(0), needsFullFetch |-> FALSE]

NoResult ==
  [startDate |-> Midnight(0), endDate |-> Midnight(0),
   requiredHours |-> DblZero, actualHours |-> DblZero,
   flexBalance |-> DblZero, workdays |-> 0]

\* The parts of the state a specification does not exercise stay idle.
MergeIdle ==
  /\ cached = <<>> /\ fresh = <<>> /\ freshStartDate = <<>>
  /\ merged = <<>> /\ mergeDone = FALSE /\ remerged = <<>>

RangeIdle ==
  /\ frCache = EmptyCache /\ frYearStart = Midnight(0)
  /\ frEndDate = Midnight(0) /\ frResult = NoRange /\ frDone = FALSE

CalcIdle ==
  /\ calcStart = Midnight(0) /\ calcEnd = Midnight(0) /\ calcEntries = <<>>
  /\ calcHoursPerDay = DblZero /\ calcHolidays = <<>>
  /\ calcPc = "idle" /\ calcWorkdays = 0 /\ calcResult = NoResult
  /\ calcPartial = DblZero

HolIdle ==
  /\ holYear = 0 /\ holCustom = <<>> /\ holPc = "idle" /\ holResult = <<>>

NoOutput == [kind |-> "none"]

\* The locals of main before a run has started.
RunLocalsUnset ==
  /\ includeToday = FALSE /\ showWeb = FALSE
  /\ startOfYear = Midnight(0) /\ endDate = Midnight(0)
  /\ allHolidays = <<>>
  /\ cache = EmptyCache
  /\ fetchStart = Midnight(0) /\ fetchEnd = Midnight(0)
  /\ needsFullFetch = FALSE /\ freshEntries = <<>> /\ allEntries = <<>>

\* main is not run; the zone of the process is set all the same.
RunOff ==
  /\ cacheFile = NoFile /\ now = Midnight(0)
  /\ pc = "off" /\ RunLocalsUnset
  /\ saveCalls = 0 /\ output = NoOutput /\ exitCode = 0 /\ runs = 0

RunIdle == RunOff /\ tz = UTC

NoConfigFile ==
  [exists |-> FALSE, reads |-> FALSE, parses |-> FALSE,
   value |-> [t |-> "null"]]

CfgIdle ==
  /\ cfgFile = NoConfigFile /\ cfgPc = "idle" /\ cfgOutcome = ConfigOk

WeekIdle ==
  /\ wkStart = Midnight(0) /\ wkEnd = Midnight(0) /\ wkEntries = <<>>
  /\ wkDate = Midnight(0) /\ wkPc = "idle" /\ wkWeeks = <<>> /\ wkNumber = 0

\* No JSON object has been built.
NoJson == [built |-> FALSE]

ViewIdle ==
  /\ vwStart = Midnight(0) /\ vwEnd = Midnight(0) /\ vwEntries = <<>>
  /\ vwHoursPerDay = DblZero /\ vwHolidays = <<>>
  /\ vwPc = "idle" /\ vwOut = <<>> /\ vwJson = NoJson

PageIdle ==
  /\ pageKind = "none" /\ pageOpen = FALSE /\ pageIncludeToday = FALSE
  /\ pageBound = FALSE /\ pageData = NoJson /\ pageRequests = <<>>
  /\ pageToggles = 0

(***************************************************************************)
(* Inputs of mergeEntries                                                  *)
(***************************************************************************)

MaxFresh == 2

\* Three consecutive days across a year boundary: 2024-12-30 .. 2025-01-01.
MergeFirstDay == DaysFromCivil(2024, 12, 30)
MergeLastDay == DaysFromCivil(2025, 1, 1)
MergeDates == {DayStr(n) : n \in MergeFirstDay..MergeLastDay}
\* A window start may also lie after every entry.
WindowStarts == {DayStr(n) : n \in MergeFirstDay..(MergeLastDay + 1)}
\* An entry without tracked time and one of half an hour.
Durations == {0, 1800}
Entries == [date : MergeDates, durationSeconds : Durations]

ListsUpTo(S, n) == UNION {[1..k -> S] : k \in 0..n}

\* Strictly ascending by date (hence unique by date).
StrictlyAscending(list) ==
  \A i \in 1..(Len(list) - 1) : StrLess(list[i].date, list[i + 1].date)

\* What saveCache has written: entries unique by date, ascending by date.
CacheLists ==
  {l \in ListsUpTo(Entries, Cardinality(MergeDates)) : StrictlyAscending(l)}

\* Fetched entries come in any order, several per day.
FreshLists == ListsUpTo(Entries, MaxFresh)

InitMerge ==
  /\ cached \in CacheLists
  /\ fresh \in FreshLists
  /\ freshStartDate \in WindowStarts
  /\ merged = <<>>
  /\ mergeDone = FALSE
  /\ remerged = <<>>
  /\ RangeIdle /\ CalcIdle /\ HolIdle /\ RunIdle
  /\ CfgIdle /\ WeekIdle /\ ViewIdle /\ PageIdle

\* The cached list is any list, not only one that saveCache can have written.
InitMergeAny ==
  /\ cached \in ListsUpTo(Entries, MaxFresh)
  /\ fresh \in FreshLists
  /\ freshStartDate \in WindowStarts
  /\ merged = <<>>
  /\ mergeDone = FALSE
  /\ remerged = <<>>
  /\ RangeIdle /\ CalcIdle /\ HolIdle /\ RunIdle
  /\ CfgIdle /\ WeekIdle /\ ViewIdle /\ PageIdle

Merge ==
  /\ ~mergeDone
  /\ merged' = mergeEntries(cached, fresh, freshStartDate)
  /\ mergeDone' = TRUE
  /\ UNCHANGED <<cached, fresh, freshStartDate, remerged>>
  /\ UNCHANGED <<rangeVars, calcVars, holVars, runVars,
                 cfgVars, weekVars, viewVars, pageVars>>

\* A repeated run: the saved result is the cache and the source returns the
\* same entries for the same window.
MergeAgain ==
  /\ mergeDone
  /\ remerged = <<>>
  /\ remerged' = <<mergeEntries(merged, fresh, freshStartDate)>>
  /\ UNCHANGED <<cached, fresh, freshStartDate, merged, mergeDone>>
  /\ UNCHANGED <<rangeVars, calcVars, holVars, runVars,
                 cfgVars, weekVars, viewVars, pageVars>>

NextMerge == Merge \/ MergeAgain

SpecMerge == InitMerge /\ [][NextMerge]_vars

\* One call of mergeEntries on any cached list.
SpecMergeAny == InitMergeAny /\ [][Merge]_vars

(***************************************************************************)
(* Claims about mergeEntries                                               *)
(***************************************************************************)

RECURSIVE SumDurations(_)
\* Sum of durationSeconds over a list of entries.
SumDurations(list) ==
  IF list = <<>> THEN 0
  ELSE list[1].durationSeconds + SumDurations(Tail(list))

EntriesOn(list, date) == SelectSeq(list, LAMBDA e : e.date = date)

Occurs(list, e) == \E i \in 1..Len(list) : list[i] = e

\* C1: every cached entry dated strictly before the window start appears in
\* the merged result with the same date and the same durationSeconds.
C1_OldCachedSurvive ==
  mergeDone =>
    \A i \in 1..Len(cached) :
      StrLess(cached[i].date, freshStartDate) => Occurs(merged, cached[i])

\* C2: for every date at or after the window start the merged result holds
\* exactly the sum of the fresh entries of that date, and no entry for that
\* date when fresh has none; the cached value plays no part.
C2_FreshWinsInWindow ==
  mergeDone =>
    \A date \in MergeDates :
      ~StrLess(date, freshStartDate) =>
        LET f == EntriesOn(fresh, date)
            m == EntriesOn(merged, date)
        IN  IF f = <<>> THEN m = <<>>
            ELSE /\ Len(m) = 1
                 /\ m[1].durationSeconds = SumDurations(f)

\* C2 witness: a cached value inside the window differs from the fresh sum,
\* and another cached date inside the window has no fresh entry.
C2_Witness ==
  /\ mergeDone
  /\ \E i \in 1..Len(cached), j \in 1..Len(cached) :
       /\ i # j
       /\ ~StrLess(cached[i].date, freshStartDate)
       /\ ~StrLess(cached[j].date, freshStartDate)
       /\ Len(EntriesOn(fresh, cached[i].date)) = 2
       /\ SumDurations(EntriesOn(fresh, cached[i].date))
            # cached[i].durationSeconds
       /\ EntriesOn(fresh, cached[j].date) = <<>>

\* C3: the entries produced by mergeEntries are strictly ascending by date,
\* hence unique by date, whatever the order and duplication of the inputs.
C3_MergedAscending == mergeDone => StrictlyAscending(merged)

\* C3 witness: both inputs are out of order or repeat a date, and the result
\* has several entries.
C3_Witness ==
  /\ mergeDone
  /\ ~StrictlyAscending(cached)
  /\ ~StrictlyAscending(fresh)
  /\ \E i \in 1..Len(cached) : StrLess(cached[i].date, freshStartDate)
  /\ Len(merged) >= 2

\* C27: merging the same fresh entries with the same window start into the
\* result of a merge gives that result again; no duration is added a second
\* time, also when a fresh entry is dated before the window start.
C27_MergeIdempotent ==
  remerged # <<>> => remerged[1] = merged

(***************************************************************************)
(* calculateFetchRange on its own                                          *)
(***************************************************************************)

RangeSlackDays == 2

\* The process runs under UTC or under America/Santiago.
RangeZones == {UTC, Santiago2025}

\* main passes January 1 of the current year, at midnight.
RangeYearStarts(zone) == {NewDate(zone, 2024, 0, 1), NewDate(zone, 2025, 0, 1)}

\* End dates from the day before the year start to past the fetch window,
\* and the days whose window starts about 2025-09-07, at midnight (as the
\* tests pass them) or at 23:59:59.999 (as main does).
RangeEndDates(yearStart) ==
  UNION {{Midnight(n), EndOfDay(n)} :
           n \in ((yearStart.day - 1)
                   ..(yearStart.day + FETCH_WINDOW_DAYS + RangeSlackDays))
                 \cup ((DaysFromCivil(2025, 9, 7) + FETCH_WINDOW_DAYS
                          - RangeSlackDays)
                       ..(DaysFromCivil(2025, 9, 7) + FETCH_WINDOW_DAYS
                          + RangeSlackDays))}

RangeCaches ==
  {[EmptyCache EXCEPT !.entries = l] :
     l \in {<<>>,
            <<[date |-> DayStr(DaysFromCivil(2025, 1, 2)),
               durationSeconds |-> 3600]>>,
            <<[date |-> DayStr(DaysFromCivil(2024, 12, 30)),
               durationSeconds |-> 0],
              [date |-> DayStr(DaysFromCivil(2025, 1, 2)),
               durationSeconds |-> 1800]>>}}

InitRange ==
  /\ tz \in RangeZones
  /\ frCache \in RangeCaches
  /\ frYearStart \in RangeYearStarts(tz)
  /\ frEndDate \in RangeEndDates(frYearStart)
  /\ frResult = NoRange
  /\ frDone = FALSE
  /\ MergeIdle /\ CalcIdle /\ HolIdle /\ RunOff
  /\ CfgIdle /\ WeekIdle /\ ViewIdle /\ PageIdle

CalculateFetchRange ==
  /\ ~frDone
  /\ frResult' = calculateFetchRange(tz, frCache, frYearStart, frEndDate)
  /\ frDone' = TRUE
  /\ UNCHANGED <<frCache, frYearStart, frEndDate>>
  /\ UNCHANGED <<mergeVars, calcVars, holVars, runVars,
                 cfgVars, weekVars, viewVars, pageVars>>

NextRange == CalculateFetchRange

SpecRange == InitRange /\ [][NextRange]_vars

\* The first moment of a calendar day: 00:00, or the time the clocks jump to
\* when they skip 00:00.
StartOfDay(zone, n) == Resolve(zone, Midnight(n))

MaxCalcEntries == 1

\* Saturday 2025-01-04 .. Sunday 2025-01-12: two weekends around a full week.
CalcFirstDay == DaysFromCivil(2025, 1, 4)
CalcLastDay == DaysFromCivil(2025, 1, 12)
CalcDays == CalcFirstDay..CalcLastDay

\* Thursday 2025-04-24 .. Monday 2025-04-28: the days about the Friday on
\* which the clocks of Africa/Cairo skip 00:00.
CalcSpringDays == DaysFromCivil(2025, 4, 24)..DaysFromCivil(2025, 4, 28)

\* Monday 2021-03-22 .. Wednesday 2021-03-24: the Monday on which the
\* clocks of Asia/Tehran skip 00:00, and the two days after it.
CalcMondayDays == DaysFromCivil(2021, 3, 22)..DaysFromCivil(2021, 3, 24)

\* A Monday, a Wednesday and a Saturday.
HolidayCandidates ==
  {DayStr(DaysFromCivil(2025, 1, 6)), DayStr(DaysFromCivil(2025, 1, 8)),
   DayStr(DaysFromCivil(2025, 1, 11))}

\* Holiday lists as getAllHolidays returns them: ascending, no duplicates.
HolidayLists ==
  {l \in ListsUpTo(HolidayCandidates, Cardinality(HolidayCandidates)) :
     \A i \in 1..(Len(l) - 1) : StrLess(l[i], l[i + 1])}

\* Entries dated inside the week and before every range of CalcDays, and
\* one entry with a negative duration (SimplifiedEntry.durationSeconds is
\* a number; the calculator is also called on entries read from the cache
\* file, which simplifyEntries has not filtered).
CalcEntrySet ==
  [date : {DayStr(DaysFromCivil(2025, 1, 3)), DayStr(DaysFromCivil(2025, 1, 6))},
   durationSeconds : {1000, 3600}]
    \cup {[date |-> DayStr(DaysFromCivil(2025, 1, 6)),
           durationSeconds |-> -1800]}

\* 7, 7.5 and 7.4 hours per day (37 hours a week).
HoursPerDayValues == {Dbl(7, 1), Dbl(15, 2), Dbl(37, 5)}

\* The zone of the process, the days the range is taken from and the
\* holiday lists: the week of January with its holidays, and the days about
\* the change of Africa/Cairo with and without that Friday as a holiday,
\* and the days from the change of Asia/Tehran on.
CalcCases ==
  {[zone |-> UTC, days |-> CalcDays, holidays |-> HolidayLists],
   [zone |-> UTC, days |-> CalcSpringDays,
    holidays |-> {<<>>, <<DayStr(DaysFromCivil(2025, 4, 25))>>}],
   [zone |-> Cairo2025, days |-> CalcSpringDays,
    holidays |-> {<<>>, <<DayStr(DaysFromCivil(2025, 4, 25))>>}],
   [zone |-> Tehran2021, days |-> CalcMondayDays, holidays |-> {<<>>}]}

\* Callers pass a start at the start of a day (new Date(y, m, d)) and an end
\* at the start of a day (the tests) or at 23:59:59.999 (main,
\* getWeekRanges).
InitCalc ==
  /\ \E case \in CalcCases :
       /\ tz = case.zone
       /\ calcStart \in {StartOfDay(tz, n) : n \in case.days}
       /\ calcEnd \in UNION {{StartOfDay(tz, n), EndOfDay(n)} :
                               n \in case.days}
       /\ calcHolidays \in case.holidays
  /\ calcEntries \in ListsUpTo(CalcEntrySet, MaxCalcEntries)
  /\ calcHoursPerDay \in HoursPerDayValues
  /\ calcPc = "input"
  /\ calcWorkdays = 0
  /\ calcResult = NoResult
  /\ calcPartial = DblZero
  /\ MergeIdle /\ RangeIdle /\ HolIdle /\ RunOff
  /\ CfgIdle /\ WeekIdle /\ ViewIdle /\ PageIdle

CountWorkdays ==
  /\ calcPc = "input"
  /\ calcWorkdays' = countWorkdays(tz, calcStart, calcEnd, calcHolidays)
  /\ calcPc' = "counted"
  /\ UNCHANGED <<calcStart, calcEnd, calcEntries, calcHoursPerDay,
                 calcHolidays, calcResult, calcPartial>>
  /\ UNCHANGED <<mergeVars, rangeVars, holVars, runVars,
                 cfgVars, weekVars, viewVars, pageVars>>

CalculateFlexTime ==
  /\ calcPc = "input"
  /\ calcResult' = calculateFlexTime(tz, calcStart, calcEnd, calcEntries,
                                     calcHoursPerDay, calcHolidays)
  /\ calcPc' = "flex"
  /\ UNCHANGED <<calcStart, calcEnd, calcEntries, calcHoursPerDay,
                 calcHolidays, calcWorkdays, calcPartial>>
  /\ UNCHANGED <<mergeVars, rangeVars, holVars, runVars,
                 cfgVars, weekVars, viewVars, pageVars>>

\* calculatePartialWeekHours(today, hoursPerDay, holidays) with today the
\* end of the range
CalculatePartialWeekHours ==
  /\ calcPc = "input"
  /\ calcPartial' = calculatePartialWeekHours(tz, calcEnd, calcHoursPerDay,
                                              calcHolidays)
  /\ calcPc' = "partial"
  /\ UNCHANGED <<calcStart, calcEnd, calcEntries, calcHoursPerDay,
                 calcHolidays, calcWorkdays, calcResult>>
  /\ UNCHANGED <<mergeVars, rangeVars, holVars, runVars,
                 cfgVars, weekVars, viewVars, pageVars>>

NextCalc == CountWorkdays \/ CalculateFlexTime \/ CalculatePartialWeekHours

SpecCalc == InitCalc /\ [][NextCalc]_vars

\* Saturday or Sunday, counted from Saturday 2025-01-04.
RefWeekendDay(n) == (n - DaysFromCivil(2025, 1, 4)) % 7 \in {0, 1}

ListToSet(list) == {list[i] : i \in 1..Len(list)}

\* The calendar days of [start, end] that are neither weekend nor holiday.
RefWorkdays(start, end, holidays) ==
  {n \in start.day..end.day :
     ~RefWeekendDay(n) /\ DayStr(n) \notin ListToSet(holidays)}

\* C8: countWorkdays is the number of calendar days of [start, end] that are
\* neither Saturday nor Sunday nor in holidays; adding or removing a holiday
\* that falls on a Saturday or Sunday leaves the count unchanged.
C8_CountWorkdays ==
  calcPc = "counted" =>
    /\ calcWorkdays = Cardinality(RefWorkdays(calcStart, calcEnd, calcHolidays))
    /\ \A n \in CalcDays \cup CalcSpringDays \cup CalcMondayDays :
         RefWeekendDay(n) =>
           /\ countWorkdays(tz, calcStart, calcEnd,
                            Append(calcHolidays, DayStr(n))) = calcWorkdays
           /\ countWorkdays(tz, calcStart, calcEnd,
                            SelectSeq(calcHolidays, LAMBDA h : h # DayStr(n)))
                = calcWorkdays

\* C9: calculateFlexTime returns workdays = countWorkdays(start, end,
\* holidays), requiredHours = workdays * hoursPerDay, actualHours = the
\* seconds of every passed entry, whatever its date, / 3600, and flexBalance
\* = actualHours - requiredHours, each the product, quotient or difference
\* of doubles; on the example of the specification they are 5, 35, 1, -34.
C9_FlexTime ==
  calcPc = "flex" =>
    LET r == calcResult
        w == countWorkdays(tz, calcStart, calcEnd, calcHolidays)
    IN  /\ r.workdays = w
        /\ r.requiredHours = DblMul(DblOfInt(w), calcHoursPerDay)
        /\ r.actualHours = Dbl(SumDurations(calcEntries), 3600)
        /\ r.flexBalance = DblSub(r.actualHours, r.requiredHours)
        /\ (/\ calcStart.day = DaysFromCivil(2025, 1, 6)
            /\ calcEnd.day = DaysFromCivil(2025, 1, 10)
            /\ calcEntries = <<[date |-> DayStr(DaysFromCivil(2025, 1, 6)),
                                durationSeconds |-> 3600]>>
            /\ calcHoursPerDay = DblOfInt(7)
            /\ calcHolidays = <<>>)
           => /\ r.workdays = 5 /\ r.requiredHours = DblOfInt(35)
              /\ r.actualHours = DblOfInt(1)
              /\ r.flexBalance = DblOfInt(-34)

\* C9 witness: the only entry is dated before the range and its seconds are
\* in actualHours all the same.
C9_Witness ==
  /\ calcPc = "flex"
  /\ DateLeq(calcStart, calcEnd)
  /\ calcEntries = <<[date |-> DayStr(DaysFromCivil(2025, 1, 3)),
                      durationSeconds |-> 3600]>>
  /\ calcResult.actualHours = DblOfInt(1)
  /\ calcResult.workdays > 0

\* C21: an entry with a negative durationSeconds that reaches
\* calculateFlexTime makes the computation fail: no result is returned (the
\* result stays absent), so the negative seconds are neither clamped nor
\* included in the balance.
C21_NegativeDurationFails ==
  (/\ calcPc = "flex"
   /\ \E i \in 1..Len(calcEntries) : calcEntries[i].durationSeconds < 0)
    => calcResult = NoResult

(***************************************************************************)
(* holidays.ts on its own                                                  *)
(***************************************************************************)

HolFirstYear == 2019
HolLastYear == 2028
MaxCustom == 2

\* Custom holiday specs: recurring ones, one of them on a public holiday, and
\* exact ones of two different years.
CustomSpecs ==
  {<<"*", "-", "1", "2", "-", "2", "4">>,
   <<"*", "-", "1", "2", "-", "2", "5">>,
   <<"2", "0", "2", "5", "-", "0", "6", "-", "0", "5">>,
   <<"2", "0", "2", "4", "-", "0", "6", "-", "0", "5">>}

\* The process runs under UTC or under Asia/Beirut, where Easter Sunday has
\* no 00:00 in 2024 (March 31) and in 2027 (March 28).
HolZones(year) == {UTC, Beirut(year)}

InitHol ==
  /\ holYear \in HolFirstYear..HolLastYear
  /\ holCustom \in ListsUpTo(CustomSpecs, MaxCustom)
  /\ holPc = "input"
  /\ holResult = <<>>
  /\ tz \in HolZones(holYear)
  /\ MergeIdle /\ RangeIdle /\ CalcIdle /\ RunOff
  /\ CfgIdle /\ WeekIdle /\ ViewIdle /\ PageIdle

GetDanishHolidays ==
  /\ holPc = "input"
  /\ holResult' = getDanishHolidays(tz, holYear)
  /\ holPc' = "danish"
  /\ UNCHANGED <<holYear, holCustom>>
  /\ UNCHANGED <<mergeVars, rangeVars, calcVars, runVars,
                 cfgVars, weekVars, viewVars, pageVars>>

GetAllHolidays ==
  /\ holPc = "input"
  /\ holResult' = getAllHolidays(tz, holYear, holCustom)
  /\ holPc' = "all"
  /\ UNCHANGED <<holYear, holCustom>>
  /\ UNCHANGED <<mergeVars, rangeVars, calcVars, runVars,
                 cfgVars, weekVars, viewVars, pageVars>>

NextHol == GetDanishHolidays \/ GetAllHolidays

SpecHol == InitHol /\ [][NextHol]_vars

\* Easter Sunday of the Gregorian calendar, from the published tables, as
\* [month, day].
EasterTable(year) ==
  CASE year = 2015 -> <<4, 5>>   [] year = 2016 -> <<3, 27>>
    [] year = 2017 -> <<4, 16>>  [] year = 2018 -> <<4, 1>>
    [] year = 2019 -> <<4, 21>>  [] year = 2020 -> <<4, 12>>
    [] year = 2021 -> <<4, 4>>   [] year = 2022 -> <<4, 17>>
    [] year = 2023 -> <<4, 9>>   [] year = 2024 -> <<3, 31>>
    [] year = 2025 -> <<4, 20>>  [] year = 2026 -> <<4, 5>>
    [] year = 2027 -> <<3, 28>>  [] year = 2028 -> <<4, 16>>
    [] year = 2029 -> <<4, 1>>   [] year = 2030 -> <<4, 21>>
    [] year = 2031 -> <<4, 13>>  [] year = 2032 -> <<3, 28>>

\* The date string of Easter Sunday + k days.
EasterPlus(year, k) ==
  DayStr(DaysFromCivil(year, EasterTable(year)[1], EasterTable(year)[2]) + k)

\* C10: getDanishHolidays(year) contains Easter Sunday + 26 days for every
\* year up to and including 2023 and not from 2024 on; the same holds for
\* getAllHolidays(year, []).
C10_GreatPrayerDay ==
  (holPc = "danish" \/ (holPc = "all" /\ holCustom = <<>>)) =>
    (isHoliday(EasterPlus(holYear, 26), holResult) <=> holYear <= 2023)

\* C10 witness: the cutoff year itself, with the holiday in the list
\* (2023-05-05).
C10_Witness ==
  /\ holPc = "all"
  /\ holCustom = <<>>
  /\ holYear = 2023
  /\ isHoliday(<<"2", "0", "2", "3", "-", "0", "5", "-", "0", "5">>, holResult)

\* Strictly ascending strings (hence no duplicates).
StrAscending(list) ==
  \A i \in 1..(Len(list) - 1) : StrLess(list[i], list[i + 1])

\* The Danish public holidays of a year, from the Easter table.
RefDanishHolidays(year) ==
  {DayStr(DaysFromCivil(year, 1, 1)), DayStr(DaysFromCivil(year, 12, 25)),
   DayStr(DaysFromCivil(year, 12, 26))}
  \cup {EasterPlus(year, k) : k \in {-3, -2, 0, 1, 39, 49, 50}}
  \cup (IF year <= 2023 THEN {EasterPlus(year, 26)} ELSE {})

\* C11: getDanishHolidays(year) is sorted ascending, has no duplicates and
\* consists of exactly January 1, December 25, December 26 and Easter Sunday
\* + k for k in {-3, -2, 0, 1, 39, 49, 50} (plus 26 up to 2023), with Easter
\* Sunday the Gregorian Easter date of the year.
C11_DanishHolidays ==
  holPc = "danish" =>
    /\ StrAscending(holResult)
    /\ ListToSet(holResult) = RefDanishHolidays(holYear)
    /\ (holYear = 2025 =>
          isHoliday(<<"2", "0", "2", "5", "-", "0", "4", "-", "2", "0">>,
                    holResult))

\* C11 witness: the list of 2025, ten dates from 2025-01-01 to 2025-12-26
\* with Easter Monday 2025-04-21 in it.
C11_Witness ==
  /\ holPc = "danish"
  /\ holYear = 2025
  /\ Len(holResult) = 10
  /\ holResult[1] = DayStr(DaysFromCivil(2025, 1, 1))
  /\ holResult[10] = DayStr(DaysFromCivil(2025, 12, 26))
  /\ isHoliday(DayStr(DaysFromCivil(2025, 4, 21)), holResult)

\* What a custom spec contributes to a year: a wildcard its month and day in
\* that year, an exact date itself when its year is the requested one.
RefCustomDates(year, customSpecs) ==
  {NumToStr(year) \o SubSeq(customSpecs[i], 2, Len(customSpecs[i])) :
     i \in {j \in 1..Len(customSpecs) : customSpecs[j][1] = "*"}}
  \cup {customSpecs[i] :
          i \in {j \in 1..Len(customSpecs) :
                   /\ customSpecs[j][1] # "*"
                   /\ SubSeq(customSpecs[j], 1, 4) = NumToStr(year)}}

\* C12: getAllHolidays(year, customSpecs) is the sorted, duplicate-free union
\* of getDanishHolidays(year), year-MM-DD for every wildcard *-MM-DD and every
\* exact spec of the requested year; an exact spec of another year adds
\* nothing and a custom date on a public holiday appears once.
C12_AllHolidays ==
  holPc = "all" =>
    /\ StrAscending(holResult)
    /\ ListToSet(holResult)
         = ListToSet(getDanishHolidays(tz, holYear))
           \cup RefCustomDates(holYear, holCustom)

\* C12 witness: 2025 with the wildcard *-12-25, which falls on a public
\* holiday, and the exact date 2024-06-05 of another year: still ten dates.
C12_Witness ==
  /\ holPc = "all"
  /\ holYear = 2025
  /\ holCustom = <<<<"*", "-", "1", "2", "-", "2", "5">>,
                    <<"2", "0", "2", "4", "-", "0", "6", "-", "0", "5">>>>
  /\ Len(holResult) = 10

(***************************************************************************)
(* index.ts: runs of main against one cache file                           *)
(*                                                                         *)
(* StartRun is main up to the await of getTimeEntries.  FetchOk is main    *)
(* from there when the fetch resolves: simplify, merge and save, and then, *)
(* without --web, compute and print the summary; with --web main awaits    *)
(* import("./web") and startWebDashboard, which DashboardStarted and       *)
(* DashboardFails end.  FetchFail and DashboardFails are the catch block,  *)
(* entered before and after saveCache.  NextInvocation starts a later      *)
(* process.  The runs modelled are the summary view and the --web view.    *)
(***************************************************************************)

MaxRuns == 2
MaxRaw == 1

\* A configuration loadConfig accepts: 35 hours a week, 7 hours a day and
\* one custom holiday written as YYYY-MM-DD.
RunConfig ==
  [hoursPerDay |-> DblOfInt(7), hoursPerWeek |-> DblOfInt(35),
   customHolidays |-> <<DayStr(DaysFromCivil(2025, 1, 2))>>]

\* Lines 1411-1420 of main: the end of today, or of yesterday.
mainEndDate(zone, current, withToday, web) ==
  IF withToday \/ web
  THEN setHours(zone, current, 23, 59, 59, 999)
  ELSE setHours(zone, addDaysTo(zone, current, -1), 23, 59, 59, 999)

mainStartOfYear(zone, current) ==
  setHours(zone, NewDate(zone, getFullYear(current), 0, 1), 0, 0, 0, 0)

RECURSIVE HolidaysFromYear(_, _, _, _, _)
\* The holidays of the years y..lastYear, concatenated in order.
HolidaysFromYear(zone, y, lastYear, customHolidays, acc) ==
  IF y > lastYear THEN acc
  ELSE HolidaysFromYear(zone, y + 1, lastYear, customHolidays,
                        acc \o getAllHolidays(zone, y, customHolidays))

mainHolidays(zone, yearStart, end, customHolidays) ==
  HolidaysFromYear(zone, getFullYear(yearStart), getFullYear(end),
                   customHolidays, <<>>)

\* allEntries.filter(e => e.date >= startStr && e.date <= endStr)
filterToRange(list, startStr, endStr) ==
  SelectSeq(list,
            LAMBDA e : StrLeq(startStr, e.date) /\ StrLeq(e.date, endStr))

\* Runs start on January 1 (where yesterday lies in the previous year) or on
\* the next day.
RunFirstDay == DaysFromCivil(2025, 1, 1)

\* Raw entries the Toggl account may hold: early and late in the UTC day,
\* finished or still running (negative duration).  They can be added and
\* deleted between two runs.
SourceEntries ==
  { [start |-> [day |-> RunFirstDay, ms |-> 3600000], duration |-> 1800],
    [start |-> [day |-> RunFirstDay, ms |-> 84600000], duration |-> 1800],
    [start |-> [day |-> RunFirstDay + 1, ms |-> 3600000], duration |-> -1],
    [start |-> [day |-> RunFirstDay + 1, ms |-> 84600000], duration |-> 3600] }

\* What getTimeEntries may resolve to for the request (from, to): entries
\* that start on the UTC days formatDate(from) up to formatDate(to + 1 day)
\* exclusive.
TogglResponses(from, to) ==
  ListsUpTo({e \in SourceEntries : e.start.day \in from.day..to.day},
            MaxRaw)

\* The milliseconds the clock moves while getTimeEntries is awaited.
FetchMillis == {0, 5000}

\* The time value of a Date, as the UTC time [day, ms].
getTime(zone, date) == PlusMinutes(date, -OffsetAt(zone, date))

\* The Date whose time value is millis milliseconds after that of date.
LaterBy(zone, date, millis) ==
  ToLocal(zone,
          [day |-> getTime(zone, date).day
                     + (getTime(zone, date).ms + millis) \div MsPerDay,
           ms |-> (getTime(zone, date).ms + millis) % MsPerDay])

\* Mutant of mainCatch: a failed fetch is treated as an empty result and the
\* loaded cache is merged and saved.
mainCatchSaves(file, loaded, windowStart, current) ==
  [file |-> saveCache([version |-> 1, lastUpdated |-> current,
                       entries |-> mergeEntries(loaded.entries, <<>>,
                                                windowStart)]),
   saves |-> 1, output |-> [kind |-> "error"], exitCode |-> 1]

\* The catch block of main: the error is printed and the process exits with
\* status 1; nothing after the await that threw has run.
mainCatch(file, loaded, windowStart, current) ==
  [file |-> file, saves |-> 0, output |-> [kind |-> "error"], exitCode |-> 1]

\* Cache files main may find: none, unparsable content, an unrecognised
\* version tag, entries that are no array, and files saveCache has written.
RunFiles ==
  LET e1 == [date |-> DayStr(DaysFromCivil(2024, 12, 30)),
             durationSeconds |-> 3600]
      e2 == [date |-> DayStr(DaysFromCivil(2025, 1, 1)),
             durationSeconds |-> 1800]
      written(l) == saveCache([EmptyCache EXCEPT !.entries = l])
  IN  { NoFile,
        [written(<<e1>>) EXCEPT !.parses = FALSE],
        [written(<<e1, e2>>) EXCEPT !.version = 2],
        [written(<<>>) EXCEPT !.entriesIsArray = FALSE],
        written(<<e2>>),
        written(<<e1, e2>>) }

\* America/New_York (Sunday 2025-03-09, 02:00 -> 03:00) and
\* Europe/Copenhagen.
NewYork2025 == Zone(-300, DaysFromCivil(2025, 3, 9), 7200000, 60)
RunZones == {NewYork2025, Copenhagen2025}

InitRun ==
  /\ cacheFile \in RunFiles
  /\ now \in {[day |-> RunFirstDay + k, ms |-> 43200000] : k \in 0..1}
  /\ tz \in RunZones
  /\ pc = "idle"
  /\ RunLocalsUnset
  /\ saveCalls = 0 /\ output = NoOutput /\ exitCode = 0 /\ runs = 0
  /\ MergeIdle /\ RangeIdle /\ CalcIdle /\ HolIdle
  /\ CfgIdle /\ WeekIdle /\ ViewIdle /\ PageIdle

StartRun ==
  /\ pc = "idle"
  /\ runs < MaxRuns
  /\ \E withToday \in BOOLEAN, web \in BOOLEAN :
       LET end == mainEndDate(tz, now, withToday, web)
           yearStart == mainStartOfYear(tz, now)
           loaded == loadCache(cacheFile)
           range == calculateFetchRange(tz, loaded, yearStart, end)
       IN  /\ includeToday' = withToday
           /\ showWeb' = web
           /\ endDate' = end
           /\ startOfYear' = yearStart
           /\ allHolidays' = mainHolidays(tz, yearStart, end,
                                           RunConfig.customHolidays)
           /\ cache' = loaded
           /\ fetchStart' = range.startDate
           /\ fetchEnd' = range.endDate
           /\ needsFullFetch' = range.needsFullFetch
  /\ freshEntries' = <<>>
  /\ allEntries' = <<>>
  /\ saveCalls' = 0
  /\ output' = NoOutput
  /\ pc' = "fetching"
  /\ runs' = runs + 1
  /\ UNCHANGED <<cacheFile, now, tz, exitCode>>
  /\ UNCHANGED <<mergeVars, rangeVars, calcVars, holVars,
                 cfgVars, weekVars, viewVars, pageVars>>

\* The object main passes to startWebDashboard.
DashboardParams ==
  [kind |-> "dashboard", startDate |-> startOfYear,
   allEntries |-> allEntries,
   hoursPerDay |-> RunConfig.hoursPerDay,
   hoursPerWeek |-> RunConfig.hoursPerWeek,
   holidays |-> allHolidays,
   includeToday |-> includeToday]

\* main from the merge to the summary, with mergedEntries the result of
\* mergeEntries and current the value of new Date() at the update of the
\* cache (lastUpdated is kept as the Date that toISOString writes).  With
\* --web nothing is printed before the dashboard is awaited.
SavedAndShown(mergedEntries, current) ==
  /\ allEntries' = mergedEntries
  /\ now' = current
  /\ cacheFile' = saveCache([version |-> 1, lastUpdated |-> current,
                             entries |-> mergedEntries])
  /\ output' =
       IF showWeb THEN NoOutput
       ELSE [kind |-> "summary",
             result |-> calculateFlexTime(
                          tz, startOfYear, endDate,
                          filterToRange(mergedEntries, formatDate(startOfYear),
                                        formatDate(endDate)),
                          RunConfig.hoursPerDay, allHolidays)]
  /\ pc' = IF showWeb THEN "starting" ELSE "done"

\* main after the await of getTimeEntries has resolved to rawEntries (the
\* raw entries before simplifyEntries), elapsed milliseconds after main
\* read the clock: merge, save, filter and output.
FetchedAndSaved(rawEntries, elapsed) ==
  /\ freshEntries' = simplifyEntries(tz, rawEntries)
  /\ SavedAndShown(mergeEntries(cache.entries, simplifyEntries(tz, rawEntries),
                                formatDateForCache(fetchStart)),
                   LaterBy(tz, now, elapsed))
  /\ saveCalls' = saveCalls + 1
  /\ exitCode' = 0
  /\ UNCHANGED <<tz, includeToday, showWeb, startOfYear,
                 endDate, allHolidays, cache, fetchStart, fetchEnd,
                 needsFullFetch, runs>>
  /\ UNCHANGED <<mergeVars, rangeVars, calcVars, holVars,
                 cfgVars, weekVars, viewVars, pageVars>>

FetchOk ==
  /\ pc = "fetching"
  /\ \E rawEntries \in TogglResponses(fetchStart, fetchEnd),
        elapsed \in FetchMillis :
       FetchedAndSaved(rawEntries, elapsed)

\* An await of main has rejected: the catch block.
Caught ==
  /\ LET r == mainCatch(cacheFile, cache, formatDateForCache(fetchStart), now)
     IN  /\ cacheFile' = r.file
         /\ saveCalls' = saveCalls + r.saves
         /\ output' = r.output
         /\ exitCode' = r.exitCode
  /\ pc' = "done"
  /\ UNCHANGED <<now, tz, runLocals, runs>>
  /\ UNCHANGED <<mergeVars, rangeVars, calcVars, holVars,
                 cfgVars, weekVars, viewVars, pageVars>>

\* getTimeEntries rejects.
FetchFail ==
  /\ pc = "fetching"
  /\ Caught

\* import("./web") and startWebDashboard have resolved: findAvailablePort
\* found a port and the server answers with the params of main.
DashboardStarted ==
  /\ pc = "starting"
  /\ output' = DashboardParams
  /\ pc' = "done"
  /\ UNCHANGED <<cacheFile, now, tz, runLocals, saveCalls, exitCode, runs>>
  /\ UNCHANGED <<mergeVars, rangeVars, calcVars, holVars,
                 cfgVars, weekVars, viewVars, pageVars>>

\* startWebDashboard rejects: findAvailablePort found no port of 3000..3099
\* free.  saveCache has been called.
DashboardFails ==
  /\ pc = "starting"
  /\ Caught

\* The first full hour after a time.
NextHour(zone, date) ==
  Resolve(zone,
          PlusMinutes([date EXCEPT !.ms = (date.ms \div 3600000) * 3600000],
                      60))

\* The program is started again at the next full hour, d days later: a new
\* process, whose locals are unset; the cache file stays.
InvokedAfter(d) ==
  /\ now' = addDaysTo(tz, NextHour(tz, now), d)
  /\ pc' = "idle"
  /\ includeToday' = FALSE /\ showWeb' = FALSE
  /\ startOfYear' = Midnight(0) /\ endDate' = Midnight(0)
  /\ allHolidays' = <<>>
  /\ cache' = EmptyCache
  /\ fetchStart' = Midnight(0) /\ fetchEnd' = Midnight(0)
  /\ needsFullFetch' = FALSE /\ freshEntries' = <<>> /\ allEntries' = <<>>
  /\ saveCalls' = 0 /\ output' = NoOutput /\ exitCode' = 0
  /\ UNCHANGED <<cacheFile, tz, runs>>
  /\ UNCHANGED <<mergeVars, rangeVars, calcVars, holVars,
                 cfgVars, weekVars, viewVars, pageVars>>

\* The program is started again, within the hour or a day after that.
NextInvocation ==
  /\ pc = "done"
  /\ runs < MaxRuns
  /\ \E d \in {0, 1} : InvokedAfter(d)

NextRun ==
  \/ StartRun \/ FetchOk \/ FetchFail
  \/ DashboardStarted \/ DashboardFails \/ NextInvocation

SpecRun == InitRun /\ [][NextRun]_vars

\* The cache file counts as populated when loadCache finds entries in it.
Populated(file) == loadCache(file).entries # <<>>

\* A run has completed merge and save: it has printed its result, or awaits
\* the dashboard, or serves it, or has failed to start it.
RunSucceeded == pc \in {"starting", "done"} /\ saveCalls = 1

\* C5 (as claimed): every successful run leaves the cache populated: the
\* first successful merge from an empty cache populates it and a populated
\* cache never returns to zero entries.
C5_AlwaysPopulatedAfterRun == RunSucceeded => Populated(cacheFile)

\* C5 (amended): after a successful run the cache is populated exactly when
\* the loaded cache held an entry dated before the fetch window start or the
\* fetch returned at least one finished entry; so a run from an empty cache
\* populates it exactly when the fetch returned a finished entry.
C5_PopulatedIffDataRemains ==
  RunSucceeded =>
    (Populated(cacheFile) <=>
       \/ \E i \in 1..Len(cache.entries) :
            StrLess(cache.entries[i].date, formatDate(fetchStart))
       \/ freshEntries # <<>>)

\* C5 witness: a populated cache whose entries all lie in the fetch window,
\* a fetch that returns nothing, and the cache is left with zero entries.
C5_Witness ==
  /\ RunSucceeded
  /\ cache.entries # <<>>
  /\ freshEntries = <<>>
  /\ ~Populated(cacheFile)

\* The file is missing, does not parse or carries another version tag.
Unusable(file) == ~file.exists \/ ~file.parses \/ file.version # 1

\* C6: with a cache file that is missing, unparsable or of an unrecognised
\* version, loadCache returns a version-1 record with zero entries and the run
\* goes on as a first run (full fetch from the start of the year).
C6_LoadRecovers ==
  (pc = "fetching" /\ Unusable(cacheFile)) =>
    /\ cache.version = 1
    /\ cache.entries = <<>>
    /\ needsFullFetch
    /\ fetchStart = startOfYear

\* C6 witness: a file with an unrecognised version tag and entries in it has
\* been loaded and the run awaits a full fetch.
C6_Witness ==
  /\ pc = "fetching"
  /\ cacheFile.exists /\ cacheFile.parses
  /\ cacheFile.version = 2 /\ cacheFile.entries # <<>>
  /\ needsFullFetch

\* C7: when the fetch fails the run ends with an error: saveCache is not
\* called, the cache file is what it was before the run, and no result is
\* produced.
C7_FetchFailureAborts ==
  [][(pc = "fetching" /\ pc' = "done" /\ exitCode' # 0) =>
       /\ cacheFile' = cacheFile
       /\ saveCalls' = 0
       /\ output'.kind = "error"
       /\ exitCode' = 1]_vars

\* C7 witness: a run over a populated cache has ended with the error exit.
C7_Witness ==
  /\ pc = "done"
  /\ exitCode = 1
  /\ output.kind = "error"
  /\ saveCalls = 0
  /\ Populated(cacheFile)

\* C28: in every run of main, whatever the current date and the flags, the
\* query range is not inverted: startOfYear <= endDate, and so is the range
\* handed to the source, fetchStart <= fetchEnd.
C28_RangeNeverInverted ==
  pc \in {"fetching", "starting", "done"} =>
    /\ DateLeq(startOfYear, endDate)
    /\ DateLeq(fetchStart, fetchEnd)

(***************************************************************************)
(* Runs of main far apart, against a source whose records do not change    *)
(***************************************************************************)

\* Africa/Casablanca: Sunday 2025-02-23, 03:00 -> 02:00.
Casablanca2025 == Zone(60, DaysFromCivil(2025, 2, 23), 10800000, -60)
CatchUpZones == {NewYork2025, Copenhagen2025, Casablanca2025}

\* The finished records of the account, in order of their start: at noon
\* UTC on January 1 and on January 3, and at 23:30 UTC on March 3, 2025
\* (March 4 in Copenhagen, March 3 in Casablanca, one hour east of UTC in
\* January and on UTC in March).
CatchUpRecords ==
  << [start |-> [day |-> RunFirstDay, ms |-> 43200000], duration |-> 1800],
     [start |-> [day |-> RunFirstDay + 2, ms |-> 43200000], duration |-> 3600],
     [start |-> [day |-> DaysFromCivil(2025, 3, 3), ms |-> 84600000],
      duration |-> 900] >>

\* The days after which the program is started again: the same day, the
\* next, and more than FETCH_WINDOW_DAYS later.
CatchUpGaps == {0, 1, FETCH_WINDOW_DAYS + 2}

\* getTimeEntries against that account: exactly its records that start on
\* the requested days.
SourceInRange(from, to) ==
  SelectSeq(CatchUpRecords, LAMBDA r : r.start.day \in from.day..to.day)

\* The first run is on January 2 or 3 at 20:00, without a cache file.
InitCatchUp ==
  /\ cacheFile = NoFile
  /\ now \in {[day |-> RunFirstDay + k, ms |-> 72000000] : k \in 1..2}
  /\ tz \in CatchUpZones
  /\ pc = "idle"
  /\ RunLocalsUnset
  /\ saveCalls = 0 /\ output = NoOutput /\ exitCode = 0 /\ runs = 0
  /\ MergeIdle /\ RangeIdle /\ CalcIdle /\ HolIdle
  /\ CfgIdle /\ WeekIdle /\ ViewIdle /\ PageIdle

FetchExact ==
  /\ pc = "fetching"
  /\ \E elapsed \in FetchMillis :
       FetchedAndSaved(SourceInRange(fetchStart, fetchEnd), elapsed)

LaterInvocation ==
  /\ pc = "done"
  /\ runs < MaxRuns
  /\ \E d \in CatchUpGaps : InvokedAfter(d)

NextCatchUp ==
  \/ StartRun \/ FetchExact
  \/ DashboardStarted \/ DashboardFails \/ LaterInvocation

SpecCatchUp == InitCatchUp /\ [][NextCatchUp]_vars

\* The seconds the account holds for a local date.
SourceSeconds(date) ==
  SumDurations(EntriesOn(simplifyEntries(tz, CatchUpRecords),
                         date))

\* The seconds the cache file holds for a date.
CachedSeconds(date) ==
  SumDurations(EntriesOn(loadCache(cacheFile).entries, date))

\* C26: after each run of a sequence of runs with non-decreasing end dates
\* in one year, against a source that returns exactly its records and does
\* not change them, the cache holds for every date of [startOfYear,
\* endDate] the seconds the source holds for it, whatever the time between
\* two runs.
C26_CacheCoversYearToDate ==
  RunSucceeded =>
    \A n \in startOfYear.day..endDate.day :
      CachedSeconds(DayStr(n)) = SourceSeconds(DayStr(n))

(***************************************************************************)
(* config.ts on its own: loadConfig on config files                        *)
(***************************************************************************)

MaxCfgHolidays == 2

JStr(str) == [t |-> "string", v |-> str]
JNum(n, d) == [t |-> "number", v |-> <<n, d>>]
JArr(list) == [t |-> "array", v |-> list]
JMissing == [t |-> "undefined"]

\* Elements of customHolidays: an exact date, the recurring wildcard of the
\* README, a date without zero padding, a month-day without year, a number.
CfgHolidayElements ==
  {JStr(<<"2", "0", "2", "5", "-", "1", "2", "-", "2", "4">>),
   JStr(<<"*", "-", "1", "2", "-", "2", "4">>),
   JStr(<<"2", "0", "2", "5", "-", "1", "-", "1">>),
   JStr(<<"1", "2", "-", "2", "4">>),
   JNum(20251224, 1)}

CfgObjects ==
  [togglApiToken : {JStr(<<"t", "o", "k">>), JStr(<<>>), JMissing},
   workspaceId : {JNum(1234567, 1), JNum(3, 2)},
   hoursPerWeek : {JNum(35, 1), JNum(0, 1)},
   hoursPerDay : {JNum(7, 1), JNum(15, 2), JStr(<<"7">>)},
   customHolidays : {JArr(l) : l \in ListsUpTo(CfgHolidayElements,
                                                MaxCfgHolidays)}
                    \cup {JMissing}]

\* JSON values that are no object of fields: null, a number, the empty
\* array and an array holding a token.
CfgOtherValues ==
  {[t |-> "null"], JNum(7, 1), JArr(<<>>), JArr(<<JStr(<<"t", "o", "k">>)>>)}

\* No file, a directory of that name, content that is no JSON, and files
\* that parse.
CfgFiles ==
  {NoConfigFile,
   [exists |-> TRUE, reads |-> FALSE, parses |-> FALSE,
    value |-> [t |-> "null"]],
   [exists |-> TRUE, reads |-> TRUE, parses |-> FALSE,
    value |-> [t |-> "null"]]}
  \cup {[exists |-> TRUE, reads |-> TRUE, parses |-> TRUE, value |-> x] :
          x \in CfgOtherValues}
  \cup {[exists |-> TRUE, reads |-> TRUE, parses |-> TRUE,
          value |-> [t |-> "object", v |-> o]] : o \in CfgObjects}

InitConfig ==
  /\ cfgFile \in CfgFiles
  /\ cfgPc = "input"
  /\ cfgOutcome = ConfigOk
  /\ MergeIdle /\ RangeIdle /\ CalcIdle /\ HolIdle /\ RunIdle
  /\ WeekIdle /\ ViewIdle /\ PageIdle

LoadConfig ==
  /\ cfgPc = "input"
  /\ cfgOutcome' = loadConfig(cfgFile)
  /\ cfgPc' = "loaded"
  /\ UNCHANGED cfgFile
  /\ UNCHANGED <<mergeVars, rangeVars, calcVars, holVars, runVars,
                 weekVars, viewVars, pageVars>>

NextConfig == LoadConfig

SpecConfig == InitConfig /\ [][NextConfig]_vars

\* An exact date YYYY-MM-DD or a recurring wildcard *-MM-DD.
WellFormedHolidaySpec(x) ==
  /\ x.t = "string"
  /\ \/ dateRegexTest(x.v)
     \/ /\ Len(x.v) = 7
        /\ x.v[1] = "*" /\ x.v[2] = "-" /\ x.v[5] = "-"
        /\ \A i \in {3, 4, 6, 7} : IsDigit(x.v[i])

\* The other fields of the file pass validation and customHolidays is a list.
OnlyHolidaysInQuestion(file) ==
  /\ file.exists /\ file.reads /\ file.parses /\ file.value.t = "object"
  /\ file.value.v.customHolidays.t = "array"
  /\ validateConfig([file.value EXCEPT !.v.customHolidays = JArr(<<>>)]).ok

\* C13: the configuration is accepted exactly when every element of
\* customHolidays is an exact date YYYY-MM-DD or a wildcard *-MM-DD, and is
\* rejected with an error naming customHolidays otherwise; a configuration
\* with the wildcard *-12-24 is loaded.
C13_CustomHolidaysValidated ==
  (cfgPc = "loaded" /\ OnlyHolidaysInQuestion(cfgFile)) =>
    LET specs == cfgFile.value.v.customHolidays.v
    IN  IF \A i \in 1..Len(specs) : WellFormedHolidaySpec(specs[i])
        THEN cfgOutcome.ok
        ELSE cfgOutcome = ConfigError("customHolidays")

(***************************************************************************)
(* weeks.ts on its own: getWeekRanges                                      *)
(***************************************************************************)

MaxWeekEntries == 2

\* Saturday 2024-12-28 .. Tuesday 2025-01-14: a year boundary in the middle
\* of a week and two full weeks after it.
WeekFirstDay == DaysFromCivil(2024, 12, 28)
WeekLastDay == DaysFromCivil(2025, 1, 14)
WeekDays == WeekFirstDay..WeekLastDay

\* Entries on a Tuesday, on a Sunday and on the Monday after it.
WeekEntrySet ==
  [date : {DayStr(DaysFromCivil(2024, 12, 31)),
           DayStr(DaysFromCivil(2025, 1, 5)),
           DayStr(DaysFromCivil(2025, 1, 6))},
   durationSeconds : {1800}]

\* Saturday 2021-03-20 .. Tuesday 2021-03-30: the days about the Monday on
\* which the clocks of Asia/Tehran skip 00:00.
WeekSpringDays == DaysFromCivil(2021, 3, 20)..DaysFromCivil(2021, 3, 30)

\* The zone of the process and the days the range is taken from.
WeekCases ==
  {[zone |-> UTC, days |-> WeekDays],
   [zone |-> UTC, days |-> WeekSpringDays],
   [zone |-> Tehran2021, days |-> WeekSpringDays]}

\* Callers pass a start at the start of a day and an end at 23:59:59.999
\* (main, the dashboard); an end at the start of a day is what a test would
\* pass.
InitWeeks ==
  /\ \E case \in WeekCases :
       /\ tz = case.zone
       /\ wkStart \in {StartOfDay(tz, n) : n \in case.days}
       /\ wkEnd \in UNION {{StartOfDay(tz, n), EndOfDay(n)} :
                             n \in case.days}
  /\ wkEntries \in ListsUpTo(WeekEntrySet, MaxWeekEntries)
  /\ wkDate = Midnight(0)
  /\ wkPc = "input"
  /\ wkWeeks = <<>>
  /\ wkNumber = 0
  /\ MergeIdle /\ RangeIdle /\ CalcIdle /\ HolIdle /\ RunOff
  /\ CfgIdle /\ ViewIdle /\ PageIdle

GetWeekRanges ==
  /\ wkPc = "input"
  /\ wkWeeks' = getWeekRanges(tz, wkStart, wkEnd, wkEntries)
  /\ wkPc' = "ranges"
  /\ UNCHANGED <<wkStart, wkEnd, wkEntries, wkDate, wkNumber>>
  /\ UNCHANGED <<mergeVars, rangeVars, calcVars, holVars, runVars,
                 cfgVars, viewVars, pageVars>>

NextWeeks == GetWeekRanges

SpecWeeks == InitWeeks /\ [][NextWeeks]_vars

\* The entries dated on one of the calendar days first..last.
RefEntriesOfDays(entries, first, last) ==
  SelectSeq(entries, LAMBDA e : \E n \in first..last : e.date = DayStr(n))

\* Monday and Sunday, counted from Monday 2024-12-30.
RefIsMonday(n) == (n - DaysFromCivil(2024, 12, 30)) % 7 = 0
RefIsSunday(n) == (n - DaysFromCivil(2024, 12, 30)) % 7 = 6

\* C14: the first window of getWeekRanges(start, end, entries) starts on
\* start itself when start is not a Monday, the last window ends on end,
\* every other boundary is the start of a Monday and the end of a Sunday,
\* and the entries of a window are exactly the input entries dated in
\* [window start, window end] inclusive.
C14_WeekWindows ==
  (wkPc = "ranges" /\ wkWeeks # <<>>) =>
    /\ ~RefIsMonday(wkStart.day) => wkWeeks[1].startDate = wkStart
    /\ wkWeeks[Len(wkWeeks)].endDate = wkEnd
    /\ \A i \in 2..Len(wkWeeks) :
         /\ RefIsMonday(wkWeeks[i].startDate.day)
         /\ wkWeeks[i].startDate = StartOfDay(tz, wkWeeks[i].startDate.day)
    /\ \A i \in 1..(Len(wkWeeks) - 1) :
         /\ RefIsSunday(wkWeeks[i].endDate.day)
         /\ wkWeeks[i].endDate = EndOfDay(wkWeeks[i].endDate.day)
    /\ \A i \in 1..Len(wkWeeks) :
         wkWeeks[i].entries
           = RefEntriesOfDays(wkEntries, wkWeeks[i].startDate.day,
                              wkWeeks[i].endDate.day)

\* C22: no window of getWeekRanges starts after it ends, and the result is
\* empty for a range whose start is after its end.
C22_WindowsOverlapRange ==
  wkPc = "ranges" =>
    /\ \A i \in 1..Len(wkWeeks) :
         DateLeq(wkWeeks[i].startDate, wkWeeks[i].endDate)
    /\ DateLess(wkEnd, wkStart) => wkWeeks = <<>>

RECURSIVE SumFrom(_, _)
SumFrom(loop, list) ==
  IF loop.i > Len(list) THEN loop.total
  ELSE SumFrom([i |-> loop.i + 1, total |-> loop.total + list[loop.i]], list)

\* The sum of a list of integers.
Sum(list) == SumFrom([i |-> 1, total |-> 0], list)

\* How many elements of a list equal e.
CountOf(list, e) == Len(SelectSeq(list, LAMBDA x : x = e))

\* In how many windows an entry is held, counted with repetitions.
WindowCount(weeks, e) ==
  Sum([i \in 1..Len(weeks) |-> CountOf(weeks[i].entries, e)])

\* C25: for start <= end the windows of getWeekRanges partition the range:
\* there is a first window and it starts on start, the last ends on end,
\* each next window starts on the calendar day after the previous one ends
\* (so the windows ascend), no window is longer than 7 days, and every
\* entry dated in [start, end] is held by exactly one window while an entry
\* dated outside the range is held by none.
C25_WindowsPartitionRange ==
  (wkPc = "ranges" /\ DateLeq(wkStart, wkEnd)) =>
    /\ wkWeeks # <<>>
    /\ wkWeeks[1].startDate = wkStart
    /\ wkWeeks[Len(wkWeeks)].endDate = wkEnd
    /\ \A i \in 1..(Len(wkWeeks) - 1) :
         /\ wkWeeks[i + 1].startDate.day = wkWeeks[i].endDate.day + 1
         /\ DateLess(wkWeeks[i].startDate, wkWeeks[i + 1].startDate)
    /\ \A i \in 1..Len(wkWeeks) :
         /\ DateLeq(wkWeeks[i].startDate, wkWeeks[i].endDate)
         /\ wkWeeks[i].endDate.day - wkWeeks[i].startDate.day + 1 <= 7
    /\ \A j \in 1..Len(wkEntries) :
         WindowCount(wkWeeks, wkEntries[j])
           = IF \E n \in wkStart.day..wkEnd.day : wkEntries[j].date = DayStr(n)
             THEN CountOf(wkEntries, wkEntries[j])
             ELSE 0

(***************************************************************************)
(* weeks.ts on its own: getWeekNumber                                      *)
(***************************************************************************)

WeekNumFirstYear == 2018
WeekNumLastYear == 2030

\* Australia/Sydney: Sunday 2021-04-04, 03:00 -> 02:00.
Sydney2021 == Zone(660, DaysFromCivil(2021, 4, 4), 10800000, -60)

\* Every day of the years under UTC, and the days of 2021 under
\* Australia/Sydney until the clocks move again on October 3.
WeekNumCases ==
  {[zone |-> UTC,
    days |-> DaysFromCivil(WeekNumFirstYear, 1, 1)
             ..DaysFromCivil(WeekNumLastYear, 12, 31)],
   [zone |-> Sydney2021,
    days |-> DaysFromCivil(2021, 1, 1)..DaysFromCivil(2021, 10, 2)]}

\* The days of a case, early and late in the day.
WeekNumDates(days) == {[day |-> n, ms |-> t] : n \in days, t \in {0, 86399999}}

InitWeekNumber ==
  /\ \E case \in WeekNumCases :
       /\ tz = case.zone
       /\ wkDate \in WeekNumDates(case.days)
  /\ wkStart = Midnight(0) /\ wkEnd = Midnight(0) /\ wkEntries = <<>>
  /\ wkPc = "input"
  /\ wkWeeks = <<>>
  /\ wkNumber = 0
  /\ MergeIdle /\ RangeIdle /\ CalcIdle /\ HolIdle /\ RunOff
  /\ CfgIdle /\ ViewIdle /\ PageIdle

GetWeekNumber ==
  /\ wkPc = "input"
  /\ wkNumber' = getWeekNumber(tz, wkDate)
  /\ wkPc' = "number"
  /\ UNCHANGED <<wkStart, wkEnd, wkEntries, wkDate, wkWeeks>>
  /\ UNCHANGED <<mergeVars, rangeVars, calcVars, holVars, runVars,
                 cfgVars, viewVars, pageVars>>

NextWeekNumber == GetWeekNumber

SpecWeekNumber == InitWeekNumber /\ [][NextWeekNumber]_vars

\* The Monday of the week of day n (1970-01-01 was a Thursday).
RefMondayOf(n) == n - ((n + 3) % 7)

\* ISO 8601: week 1 of a year is the week with January 4 in it, and a week
\* belongs to the year its Thursday lies in.
RefIsoWeek(n) ==
  LET y == CivilFromDays(RefMondayOf(n) + 3).y
  IN  (RefMondayOf(n) - RefMondayOf(DaysFromCivil(y, 1, 4))) \div 7 + 1

\* Week numbers from the calendar.
RefKnownWeek(n) ==
  CASE n = DaysFromCivil(2020, 12, 31) -> 53
    [] n = DaysFromCivil(2021, 1, 3) -> 53
    [] n = DaysFromCivil(2021, 1, 4) -> 1
    [] n = DaysFromCivil(2023, 1, 1) -> 52
    [] n = DaysFromCivil(2024, 12, 29) -> 52
    [] n = DaysFromCivil(2024, 12, 30) -> 1
    [] n = DaysFromCivil(2025, 6, 15) -> 24
    [] n = DaysFromCivil(2026, 12, 31) -> 53
    [] n = DaysFromCivil(2027, 1, 3) -> 53
    [] OTHER -> RefIsoWeek(n)

\* C15: getWeekNumber(date) is the ISO-8601 week number of the date: the
\* ordinal of the week within the year of that week's Thursday.
C15_IsoWeekNumber ==
  wkPc = "number" =>
    /\ wkNumber = RefIsoWeek(wkDate.day)
    /\ wkNumber = RefKnownWeek(wkDate.day)

\* C29: for every window of getWeekRanges, weekNumber is the ISO-8601 week
\* number of the window's days and year is the ISO week-year, the year of
\* that week's Thursday.
C29_IsoWeekYear ==
  wkPc = "ranges" =>
    \A i \in 1..Len(wkWeeks) :
      /\ wkWeeks[i].weekNumber = RefIsoWeek(wkWeeks[i].startDate.day)
      /\ wkWeeks[i].year
           = CivilFromDays(RefMondayOf(wkWeeks[i].startDate.day) + 3).y

(***************************************************************************)
(* The trend view: main partitions [startOfYear, endDate] into weeks and   *)
(* hands them to renderTrendChart (calculatePeriods, aggregateByMonth) or  *)
(* to buildTrendJson                                                       *)
(***************************************************************************)

MaxTrendWeeks == 3

\* January 1 of a year that starts on a Monday (2024) and of one that
\* starts on a Wednesday (2025).
TrendStarts == {Midnight(DaysFromCivil(2024, 1, 1)),
                Midnight(DaysFromCivil(2025, 1, 1))}

\* The end of a day in the first weeks of the year, or of November 9.
TrendEnds(start) ==
  {EndOfDay(start.day + n) : n \in 0..(7 * MaxTrendWeeks - 1)}
  \cup {EndOfDay(DaysFromCivil(getFullYear(start), 11, 9))}

TrendEntrySet ==
  {[date |-> DayStr(DaysFromCivil(2024, 1, 3)), durationSeconds |-> 1000],
   [date |-> DayStr(DaysFromCivil(2025, 1, 2)), durationSeconds |-> 450],
   [date |-> DayStr(DaysFromCivil(2025, 1, 7)), durationSeconds |-> 3600],
   [date |-> DayStr(DaysFromCivil(2025, 11, 4)), durationSeconds |-> 1800]}

\* No holidays, or New Year's Day and a custom holiday on a Monday.
ViewHolidayLists ==
  {<<>>, <<DayStr(DaysFromCivil(2025, 1, 1)),
           DayStr(DaysFromCivil(2025, 1, 6))>>}

InitTrend ==
  /\ vwStart \in TrendStarts
  /\ vwEnd \in TrendEnds(vwStart)
  /\ vwEntries \in {<<>>} \cup {<<entry>> : entry \in TrendEntrySet}
  /\ vwHoursPerDay \in HoursPerDayValues
  /\ vwHolidays \in ViewHolidayLists
  /\ vwPc = "input"
  /\ vwOut = <<>>
  /\ vwJson = NoJson
  /\ MergeIdle /\ RangeIdle /\ CalcIdle /\ HolIdle /\ RunIdle
  /\ CfgIdle /\ WeekIdle /\ PageIdle

\* The inputs stay; the other parts of the state stay idle.
ViewFrame ==
  /\ UNCHANGED <<vwStart, vwEnd, vwEntries, vwHoursPerDay, vwHolidays>>
  /\ UNCHANGED <<mergeVars, rangeVars, calcVars, holVars, runVars,
                 cfgVars, weekVars, pageVars>>

CalculatePeriods ==
  /\ vwPc = "input"
  /\ UNCHANGED vwJson
  /\ vwOut' = calculatePeriods(tz, getWeekRanges(tz, vwStart, vwEnd, vwEntries),
                               vwHoursPerDay, vwHolidays)
  /\ vwPc' = "weeklyPeriods"
  /\ ViewFrame

AggregateByMonth ==
  /\ vwPc = "input"
  /\ UNCHANGED vwJson
  /\ vwOut' = aggregateByMonth(tz, getWeekRanges(tz, vwStart, vwEnd, vwEntries),
                               vwHoursPerDay, vwHolidays)
  /\ vwPc' = "monthlyPeriods"
  /\ ViewFrame

BuildTrendJson ==
  /\ vwPc = "input"
  /\ \E granularity \in {"weekly", "monthly"} :
       vwJson' = buildTrendJson(tz, getWeekRanges(tz, vwStart, vwEnd, vwEntries),
                                vwHoursPerDay, vwHolidays, granularity)
  /\ UNCHANGED vwOut
  /\ vwPc' = "trendJson"
  /\ ViewFrame

NextTrend == CalculatePeriods \/ AggregateByMonth \/ BuildTrendJson

SpecTrend == InitTrend /\ [][NextTrend]_vars

\* The week windows main computes for the view.
ViewWeeks == getWeekRanges(tz, vwStart, vwEnd, vwEntries)

\* The flex balance of each window.
RefWeekDelta(week) ==
  calculateFlexTime(tz, week.startDate, week.endDate, week.entries,
                    vwHoursPerDay, vwHolidays).flexBalance

RefWeekDeltas(weeks) == [i \in 1..Len(weeks) |-> RefWeekDelta(weeks[i])]

\* Calendar months numbered through the years: 12 * year + month.
RefMonthIndex(week) ==
  12 * CivilFromDays(week.startDate.day).y
  + (CivilFromDays(week.startDate.day).m - 1)

RECURSIVE RefAscending(_)
\* The numbers of a set in ascending order.
RefAscending(S) ==
  IF S = {} THEN <<>>
  ELSE LET least == CHOOSE x \in S : \A y \in S : x <= y
       IN  <<least>> \o RefAscending(S \ {least})

\* The months in which windows start, in chronological order.
RefMonths(weeks) == RefAscending({RefMonthIndex(weeks[i]) : i \in 1..Len(weeks)})

\* The sum of the deltas of the windows that start in a month.
RefMonthDelta(weeks, monthIndex) ==
  DblSum([i \in 1..Len(weeks) |->
            IF RefMonthIndex(weeks[i]) = monthIndex
            THEN RefWeekDelta(weeks[i]) ELSE DblZero])

\* One period per month in chronological order, each with the running sum
\* of the deltas up to it.
RefMonthlyPeriods(weeks) ==
  LET months == RefMonths(weeks)
  IN  [k \in 1..Len(months) |->
         [label |-> getMonthAbbrev(months[k] % 12),
          delta |-> RefMonthDelta(weeks, months[k]),
          cumulative |->
            DblSum([j \in 1..k |-> RefMonthDelta(weeks, months[j])])]]

\* C16: for the same weeks and data the cumulative of the last monthly
\* period equals the sum of all weekly deltas and the cumulative of the last
\* weekly period, in the chart periods and (rounded) in the JSON trend.
C16_FinalCumulativeSame ==
  /\ (vwPc = "monthlyPeriods" /\ vwOut # <<>>) =>
        /\ vwOut[Len(vwOut)].cumulative = DblSum(RefWeekDeltas(ViewWeeks))
        /\ LET weekly == calculatePeriods(tz, ViewWeeks, vwHoursPerDay,
                                          vwHolidays)
           IN  vwOut[Len(vwOut)].cumulative = weekly[Len(weekly)].cumulative
  /\ (vwPc = "trendJson" /\ vwJson.granularity = "monthly"
        /\ vwJson.periods # <<>>) =>
        /\ vwJson.periods[Len(vwJson.periods)].cumulative
             = Round2(DblSum(RefWeekDeltas(ViewWeeks)))
        /\ LET weekly == buildTrendJson(tz, ViewWeeks, vwHoursPerDay, vwHolidays,
                                        "weekly").periods
           IN  vwJson.periods[Len(vwJson.periods)].cumulative
                 = weekly[Len(weekly)].cumulative

\* C17: the monthly periods come in chronological order of (year, month),
\* one per month, each with the cumulative of its own delta and the deltas
\* of all earlier months, also for ranges that reach October, November and
\* December.
C17_MonthlyChronological ==
  /\ vwPc = "monthlyPeriods" => vwOut = RefMonthlyPeriods(ViewWeeks)
  /\ (vwPc = "trendJson" /\ vwJson.granularity = "monthly") =>
        LET ref == RefMonthlyPeriods(ViewWeeks)
        IN  vwJson.periods
              = [k \in 1..Len(ref) |->
                   [label |-> ref[k].label,
                    delta |-> Round2(ref[k].delta),
                    cumulative |-> Round2(ref[k].cumulative)]]

\* C18: the windows that start in the same month of the same year put their
\* whole deltas into one single monthly period, in aggregateByMonth and in
\* buildTrendJson, also when the Monday of the clipped first window lies in
\* the previous year.  The order of the periods is not constrained here.
C18_OnePeriodPerStartMonth ==
  /\ vwPc = "monthlyPeriods" =>
        LET ref == RefMonthlyPeriods(ViewWeeks)
        IN  /\ Len(vwOut) = Len(ref)
            /\ \A k \in 1..Len(ref) :
                 \E i \in 1..Len(vwOut) :
                   /\ vwOut[i].label = ref[k].label
                   /\ vwOut[i].delta = ref[k].delta
  /\ (vwPc = "trendJson" /\ vwJson.granularity = "monthly") =>
        LET ref == RefMonthlyPeriods(ViewWeeks)
        IN  /\ Len(vwJson.periods) = Len(ref)
            /\ \A k \in 1..Len(ref) :
                 \E i \in 1..Len(vwJson.periods) :
                   /\ vwJson.periods[i].label = ref[k].label
                   /\ vwJson.periods[i].delta = Round2(ref[k].delta)

(***************************************************************************)
(* The JSON outputs over the first days of a year: SpecDashboard           *)
(***************************************************************************)

MaxDashDays == 9
MaxDashEntries == 2

\* January 1 of 2024 (a Monday) and of 2025 (a Wednesday), as main's
\* startOfYear.
DashStarts == {Midnight(DaysFromCivil(2024, 1, 1)),
               Midnight(DaysFromCivil(2025, 1, 1))}

\* The values of new Date() at a request: midnight and noon of a day.
DashNoon(n) == [day |-> n, ms |-> 43200000]
DashTimes(n) == {[day |-> n, ms |-> 0], DashNoon(n)}

\* The ends computeEndDate gives from January 1 on; on January 1 without
\* today the end is December 31 of the previous year.
DashEnds(zone, start) ==
  {computeEndDate(zone, withToday, current) :
     withToday \in BOOLEAN,
     current \in UNION {DashTimes(start.day + n) : n \in 0..MaxDashDays}}

\* Two entries on 2025-01-02 (0.125 and 0.035 hours), one in the following
\* week, and one dated before the range of 2025.
DashEntrySet ==
  {[date |-> DayStr(DaysFromCivil(2025, 1, 2)), durationSeconds |-> 450],
   [date |-> DayStr(DaysFromCivil(2025, 1, 2)), durationSeconds |-> 126],
   [date |-> DayStr(DaysFromCivil(2025, 1, 7)), durationSeconds |-> 450],
   [date |-> DayStr(DaysFromCivil(2024, 12, 31)), durationSeconds |-> 1800]}

\* The configuration fields the outputs use.
DashConfig == [hoursPerDay |-> vwHoursPerDay,
               hoursPerWeek |-> DblMul(DblOfInt(5), vwHoursPerDay)]

InitDashboard ==
  /\ tz = UTC
  /\ vwStart \in DashStarts
  /\ vwEnd \in DashEnds(tz, vwStart)
  /\ vwEntries \in ListsUpTo(DashEntrySet, MaxDashEntries)
  /\ vwHoursPerDay \in HoursPerDayValues
  /\ vwHolidays \in ViewHolidayLists
  /\ vwPc = "input"
  /\ vwOut = <<>>
  /\ vwJson = NoJson
  /\ MergeIdle /\ RangeIdle /\ CalcIdle /\ HolIdle /\ RunIdle
  /\ CfgIdle /\ WeekIdle /\ PageIdle

\* buildDailyData(startDate, endDate, entries, hoursPerDay, holidays)
BuildDailyData ==
  /\ vwPc = "input"
  /\ vwOut' = buildDailyData(tz, vwStart, vwEnd, vwEntries, vwHoursPerDay,
                             vwHolidays)
  /\ vwPc' = "daily"
  /\ UNCHANGED vwJson
  /\ ViewFrame

\* main with --weekly --json
BuildWeeklyJson ==
  /\ vwPc = "input"
  /\ vwOut' = buildWeeklyJson(tz, getWeekRanges(tz, vwStart, vwEnd, vwEntries),
                              vwHoursPerDay, vwHolidays)
  /\ vwPc' = "weeklyJson"
  /\ UNCHANGED vwJson
  /\ ViewFrame

\* main with --json: the summary
SummaryJson ==
  /\ vwPc = "input"
  /\ vwJson' = summaryJsonOutput(tz, vwStart, vwEnd, vwEntries, DashConfig,
                                 vwHolidays)
  /\ vwPc' = "summaryJson"
  /\ UNCHANGED vwOut
  /\ ViewFrame

\* The request handler of /api/data: buildDashboardData(params,
\* includeToday) at a time for which computeEndDate gives vwEnd: noon of
\* that day with today included, noon of the next day without.
BuildDashboardData ==
  /\ vwPc = "input"
  /\ \E withToday \in BOOLEAN,
        current \in {DashNoon(vwEnd.day), DashNoon(vwEnd.day + 1)} :
       /\ computeEndDate(tz, withToday, current) = vwEnd
       /\ vwJson' = buildDashboardData(tz, 
                      [startDate |-> vwStart,
                       allEntries |-> vwEntries,
                       hoursPerDay |-> DashConfig.hoursPerDay,
                       hoursPerWeek |-> DashConfig.hoursPerWeek,
                       holidays |-> vwHolidays,
                       includeToday |-> withToday],
                      withToday, current)
  /\ vwPc' = "dashboard"
  /\ UNCHANGED vwOut
  /\ ViewFrame

NextDashboard ==
  BuildDailyData \/ BuildWeeklyJson \/ SummaryJson \/ BuildDashboardData

SpecDashboard == InitDashboard /\ [][NextDashboard]_vars

\* buildDailyData alone, over the same inputs.
NextDaily == BuildDailyData

SpecDaily == InitDashboard /\ [][NextDaily]_vars

\* The calendar days of [vwStart, vwEnd] as day numbers.
RefRangeDays == vwStart.day..vwEnd.day

\* The element buildDailyData should give for day n.
RefDaily(n) ==
  LET actual == Dbl(SumDurations(EntriesOn(vwEntries, DayStr(n))), 3600)
      required == IF RefWeekendDay(n) \/ DayStr(n) \in ListToSet(vwHolidays)
                  THEN DblZero ELSE vwHoursPerDay
  IN  [date |-> DayStr(n),
       actualHours |-> actual,
       requiredHours |-> required,
       flexBalance |-> DblSub(actual, required)]

IsRounded2(x) == Round2(x) = x

\* The entries an output is computed from: buildDashboardData keeps the
\* entries dated inside the range, main passes its entries on.
ViewEntriesUsed ==
  IF vwPc = "dashboard"
  THEN SelectSeq(vwEntries,
                 LAMBDA e : /\ StrLeq(DayStr(vwStart.day), e.date)
                            /\ StrLeq(e.date, DayStr(vwEnd.day)))
  ELSE vwEntries

ViewWeeksUsed == getWeekRanges(tz, vwStart, vwEnd, ViewEntriesUsed)

\* The summary holds the rounded values of the unrounded result.
RefSummaryRounded(summary) ==
  LET result == calculateFlexTime(tz, vwStart, vwEnd, ViewEntriesUsed,
                                  vwHoursPerDay, vwHolidays)
  IN  /\ summary.requiredHours = Round2(result.requiredHours)
      /\ summary.actualHours = Round2(result.actualHours)
      /\ summary.flexBalance = Round2(result.flexBalance)

\* Every weekly element holds the rounded values of its week, and the
\* rounded sum of the unrounded flex balances up to its week.
RefWeeklyRounded(weekly) ==
  LET weeks == ViewWeeksUsed
  IN  /\ Len(weekly) = Len(weeks)
      /\ \A i \in 1..Len(weekly) :
           LET result == calculateFlexTime(tz, weeks[i].startDate,
                                           weeks[i].endDate, weeks[i].entries,
                                           vwHoursPerDay, vwHolidays)
           IN  /\ weekly[i].requiredHours = Round2(result.requiredHours)
               /\ weekly[i].actualHours = Round2(result.actualHours)
               /\ weekly[i].flexBalance = Round2(result.flexBalance)
               /\ weekly[i].cumulativeFlex
                    = Round2(DblSum([j \in 1..i |->
                                       RefWeekDelta(weeks[j])]))

\* Every period holds the rounded delta of its item and the rounded sum of
\* the unrounded deltas up to its item.
RefPeriodsRounded(periods, deltas) ==
  /\ Len(periods) = Len(deltas)
  /\ \A i \in 1..Len(periods) :
       /\ periods[i].delta = Round2(deltas[i])
       /\ periods[i].cumulative = Round2(DblSum([j \in 1..i |-> deltas[j]]))

\* The unrounded deltas of the weekly trend and of the monthly trend.
RefTrendDeltas(granularity) ==
  LET weeklyData == TrendWeeklyData(tz, ViewWeeksUsed, vwHoursPerDay, vwHolidays)
      monthlyMap == TrendMonthlyMap([i |-> 1, monthlyMap |-> <<>>],
                                    weeklyData)
  IN  IF granularity = "monthly"
      THEN [i \in 1..Len(monthlyMap) |-> monthlyMap[i].value.delta]
      ELSE [i \in 1..Len(weeklyData) |-> weeklyData[i].delta]

\* The summary, the weekly breakdown and the trend periods are rounded to
\* two decimal places, with cumulative values rounded from unrounded sums.
RoundedSummaryWeeklyTrend ==
  /\ vwPc = "summaryJson" => RefSummaryRounded(vwJson)
  /\ vwPc = "weeklyJson" => RefWeeklyRounded(vwOut)
  /\ vwPc = "dashboard" =>
        /\ RefSummaryRounded(vwJson.summary)
        /\ RefWeeklyRounded(vwJson.weekly)
        /\ RefPeriodsRounded(vwJson.trend.periods, RefTrendDeltas("weekly"))
        /\ RefPeriodsRounded(vwJson.monthlyTrend.periods,
                             RefTrendDeltas("monthly"))

\* The hours of every element of a day-by-day series have at most two
\* decimal places.
RefDailyRounded(daily) ==
  \A k \in 1..Len(daily) :
    /\ IsRounded2(daily[k].actualHours)
    /\ IsRounded2(daily[k].requiredHours)
    /\ IsRounded2(daily[k].flexBalance)

\* C20: every numeric value handed to the JSON and dashboard consumers
\* (summary, weekly breakdown, trend periods and the day-by-day series) is
\* rounded to two decimal places, and cumulative values are the rounded
\* sums of the unrounded per-period values.
C20_OutputsRounded ==
  /\ RoundedSummaryWeeklyTrend
  /\ vwPc = "daily" => RefDailyRounded(vwOut)
  /\ vwPc = "dashboard" => RefDailyRounded(vwJson.daily)

\* A dashboard whose weekly cumulative differs from the sum of the rounded
\* weekly balances, so that accumulating unrounded values matters.
RoundedFromUnroundedSeen ==
  /\ vwPc = "dashboard"
  /\ Len(vwJson.weekly) >= 2
  /\ vwJson.weekly[2].cumulativeFlex
       # DblAdd(vwJson.weekly[1].flexBalance, vwJson.weekly[2].flexBalance)

(***************************************************************************)
(* calculator.ts and weeks.ts together                                     *)
(***************************************************************************)

\* The Monday 00:00 of the week of a date, by day arithmetic.
RefMondayDate(date) == Midnight(RefMondayOf(date.day))

\* The last window of getWeekRanges(calcStart, calcEnd, calcEntries).
LastWindow ==
  LET weeks == getWeekRanges(tz, calcStart, calcEnd, calcEntries)
  IN  weeks[Len(weeks)]

\* C23: calculatePartialWeekHours(referenceDay, hoursPerDay, holidays) is
\* hoursPerDay times the number of non-weekend, non-holiday days from the
\* Monday of referenceDay's week through referenceDay, whatever the weekday
\* of referenceDay, and it is the required hours of the last window of
\* getWeekRanges for a range that ends on referenceDay and starts on or
\* before that Monday.
C23_PartialWeekHours ==
  calcPc = "partial" =>
    /\ calcPartial
         = DblMul(DblOfInt(Cardinality(RefWorkdays(RefMondayDate(calcEnd),
                                                   calcEnd, calcHolidays))),
                  calcHoursPerDay)
    /\ DateLeq(calcStart, RefMondayDate(calcEnd)) =>
         calcPartial
           = calculateFlexTime(tz, LastWindow.startDate, LastWindow.endDate,
                               LastWindow.entries, calcHoursPerDay,
                               calcHolidays).requiredHours

\* All entries are dated on a calendar day of [vwStart, vwEnd].
EntriesInsideRange(entries) ==
  \A i \in 1..Len(entries) :
    /\ StrLeq(DayStr(vwStart.day), entries[i].date)
    /\ StrLeq(entries[i].date, DayStr(vwEnd.day))

\* The calculateFlexTime results of the windows of a list of weeks.
WindowResults(weeks) ==
  [i \in 1..Len(weeks) |->
     calculateFlexTime(tz, weeks[i].startDate, weeks[i].endDate, weeks[i].entries,
                       vwHoursPerDay, vwHolidays)]

\* The per-window results of the weeks add up to the result of the whole
\* range.
WindowsAddUp(weeks, entries) ==
  LET total == calculateFlexTime(tz, vwStart, vwEnd, entries, vwHoursPerDay,
                                 vwHolidays)
      results == WindowResults(weeks)
      n == Len(weeks)
  IN  /\ Sum([i \in 1..n |-> results[i].workdays]) = total.workdays
      /\ DblSum([i \in 1..n |-> results[i].requiredHours])
           = total.requiredHours
      /\ DblSum([i \in 1..n |-> results[i].actualHours]) = total.actualHours
      /\ DblSum([i \in 1..n |-> results[i].flexBalance]) = total.flexBalance

\* C24: for start <= end and entries dated inside [start, end], the
\* calculateFlexTime results of the windows of getWeekRanges add up to
\* calculateFlexTime over the whole range in workdays, requiredHours,
\* actualHours and flexBalance, and the last cumulativeFlex of the weekly
\* breakdown is the flexBalance of the summary.
C24_WeeklyAddsUpToSummary ==
  /\ (/\ vwPc = "weeklyJson"
      /\ DateLeq(vwStart, vwEnd)
      /\ EntriesInsideRange(vwEntries)) =>
       /\ WindowsAddUp(getWeekRanges(tz, vwStart, vwEnd, vwEntries), vwEntries)
       /\ vwOut[Len(vwOut)].cumulativeFlex
            = Round2(calculateFlexTime(tz, vwStart, vwEnd, vwEntries,
                                       vwHoursPerDay, vwHolidays).flexBalance)
  /\ (vwPc = "dashboard" /\ DateLeq(vwStart, vwEnd)) =>
       /\ WindowsAddUp(ViewWeeksUsed, ViewEntriesUsed)
       /\ vwJson.weekly[Len(vwJson.weekly)].cumulativeFlex
            = vwJson.summary.flexBalance

(***************************************************************************)
(* The dashboard page and its toggle: SpecPage                             *)
(*                                                                         *)
(* The page of getDashboardHtml keeps includeToday in a script variable:   *)
(* loadData awaits fetch('/api/data?includeToday=' + includeToday) and     *)
(* renders what arrives; the click handler bound by setupToggle (at the    *)
(* first render) flips includeToday and calls loadData.  useDashboardData  *)
(* keeps includeToday in React state: an effect calls fetchData at mount   *)
(* and after every change, and fetchData passes what arrives to setData;   *)
(* App shows the toggle once data is set.  Neither keeps a handle on a     *)
(* request once it is sent.                                                *)
(***************************************************************************)

MaxToggles == 3

\* The params startWebDashboard was given: the year 2025 at 7 hours a day,
\* with an entry on January 2 and one on January 3.
PageParams ==
  [startDate |-> Midnight(DaysFromCivil(2025, 1, 1)),
   allEntries |->
     << [date |-> DayStr(DaysFromCivil(2025, 1, 2)), durationSeconds |-> 450],
        [date |-> DayStr(DaysFromCivil(2025, 1, 3)),
         durationSeconds |-> 1000] >>,
   hoursPerDay |-> DblOfInt(7),
   hoursPerWeek |-> DblOfInt(35),
   holidays |-> <<>>,
   includeToday |-> FALSE]

\* new Date() at the server while the page is open: noon of January 3.
PageNow == [day |-> DaysFromCivil(2025, 1, 3), ms |-> 43200000]

\* The handler of /api/data for ?includeToday=<include>
apiData(include) == buildDashboardData(UTC, PageParams, include, PageNow)

\* fetch('/api/data?includeToday=' + include), not yet answered
Request(include) == [include |-> include, response |-> NoJson]

\* The list without its i-th element.
Without(list, i) == SubSeq(list, 1, i - 1) \o SubSeq(list, i + 1, Len(list))

InitPage ==
  /\ pageKind \in {"script", "hook"}
  /\ pageOpen = FALSE
  /\ pageIncludeToday \in BOOLEAN
  /\ pageBound = FALSE
  /\ pageData = NoJson
  /\ pageRequests = <<>>
  /\ pageToggles = 0
  /\ MergeIdle /\ RangeIdle /\ CalcIdle /\ HolIdle /\ RunIdle
  /\ CfgIdle /\ WeekIdle /\ ViewIdle

PageFrame ==
  UNCHANGED <<mergeVars, rangeVars, calcVars, holVars, runVars,
              cfgVars, weekVars, viewVars>>

\* The page is loaded: the script calls loadData, the hook's effect calls
\* fetchData(includeToday).
OpenPage ==
  /\ ~pageOpen
  /\ pageOpen' = TRUE
  /\ pageRequests' = <<Request(pageIncludeToday)>>
  /\ UNCHANGED <<pageKind, pageIncludeToday, pageBound, pageData,
                 pageToggles>>
  /\ PageFrame

\* The toggle can be clicked.  The script's handler exists once setupToggle
\* has bound it, at the first render.  App renders the loading view while
\* the data of the hook is null, and Toggle, the one caller of
\* toggleIncludeToday, once data has been set.
ToggleShown ==
  IF pageKind = "script" THEN pageBound ELSE pageData # NoJson

\* A click on the toggle: the value is flipped and a request for the new
\* value is sent (by loadData in the handler, by the effect of the hook).
ToggleIncludeToday ==
  /\ pageOpen
  /\ ToggleShown
  /\ pageToggles < MaxToggles
  /\ pageIncludeToday' = ~pageIncludeToday
  /\ pageRequests' = Append(pageRequests, Request(~pageIncludeToday))
  /\ pageToggles' = pageToggles + 1
  /\ UNCHANGED <<pageKind, pageOpen, pageBound, pageData>>
  /\ PageFrame

\* The server answers one of the requests.
ApiData ==
  /\ \E i \in 1..Len(pageRequests) :
       /\ pageRequests[i].response = NoJson
       /\ pageRequests' =
            [pageRequests EXCEPT ![i].response = apiData(pageRequests[i].include)]
  /\ UNCHANGED <<pageKind, pageOpen, pageIncludeToday, pageBound, pageData,
                 pageToggles>>
  /\ PageFrame

\* One answer arrives, whichever: the awaits of loadData (of fetchData)
\* resume and the data is rendered (passed to setData); the script's render
\* calls setupToggle.
ResponseArrives ==
  /\ \E i \in 1..Len(pageRequests) :
       /\ pageRequests[i].response # NoJson
       /\ pageData' = pageRequests[i].response
       /\ pageRequests' = Without(pageRequests, i)
  /\ pageBound' = (pageBound \/ pageKind = "script")
  /\ UNCHANGED <<pageKind, pageOpen, pageIncludeToday, pageToggles>>
  /\ PageFrame

NextPage == OpenPage \/ ToggleIncludeToday \/ ApiData \/ ResponseArrives

SpecPage == InitPage /\ [][NextPage]_vars

\* C30: once the page is open and no request is in flight, the data
\* displayed is the response of /api/data for the current value of the
\* toggle.
C30_DisplayedMatchesToggle ==
  (pageOpen /\ pageRequests = <<>>) => pageData = apiData(pageIncludeToday)

====
